---- MODULE Spec2Model ----
(***************************************************************************)
(* QA MCP server (src/src/service.ts and the tool modules it registers):   *)
(* the tool registry, the tool-call dispatcher and the handlers of the     *)
(* fifteen tools, as a state machine over concurrent tool calls.           *)
(*                                                                         *)
(* Node runs every handler on one thread: a handler runs without           *)
(* interruption from one await to the next, and other calls may run        *)
(* between two awaits.  Each action below is one such uninterrupted run.   *)
(***************************************************************************)
EXTENDS Integers, Sequences, FiniteSets, TLC

\* Number of tool calls, of any tools, that may be in flight at the same time.
MaxCalls == 1
\* Number of GitLab tool calls in flight at the same time, where only the GitLab
\* tools (the handlers that share ctx) are called.
MaxGitLabCalls == 2
\* Number of paragraphs of an issue description, of labels of an issue, and of
\* user comments of an issue.
MaxParagraphs == 2
MaxLabels == 1
MaxComments == 5
\* Number of system-generated notes among the fetched notes of an issue.
MaxSystemNotes == 1
\* Number of path segments between the host and the marker of a link.
MaxSegments == 2
MaxTopics == 5
MaxResults == 6

\* undefined, null and "" are all falsy under `x || y`: one value stands for them.
NoValue == ""

---------------------------------------------------------------------------
(* ErrorCode and McpError of the MCP SDK, as the source uses them.         *)

MethodNotFound == "MethodNotFound"
InvalidParams == "InvalidParams"
InternalError == "InternalError"

\* A message is a sequence of text fragments (a template string's parts).
NoError == [mcp |-> FALSE, code |-> NoValue, message |-> <<>>]
McpError(code, message) == [mcp |-> TRUE, code |-> code, message |-> message]
\* Any thrown value that is not an McpError (TypeError, driver error, ...).
RawError(message) == [mcp |-> FALSE, code |-> NoValue, message |-> message]

Pending == [kind |-> "pending", error |-> NoError]
Returned == [kind |-> "return", error |-> NoError]
Thrown(e) == [kind |-> "throw", error |-> e]

NoResponse == [kind |-> "none", error |-> NoError]
ResultResponse == [kind |-> "result", error |-> NoError]
ErrorResponse(e) == [kind |-> "error", error |-> e]

---------------------------------------------------------------------------
(* URLs.  A base URL is scheme://hostname[:port]; a link is                *)
(* scheme://hostname[:port]/seg/.../seg SEP MARKER/ID.                     *)

Url(scheme, hostname, port) == [scheme |-> scheme, hostname |-> hostname, port |-> port]
NoUrl == Url(NoValue, NoValue, NoValue)
DefaultGitLabUrl == Url("https", "gitlab.com", NoValue)
GitHubApi == Url("https", "api.github.com", NoValue)

Link(scheme, hostname, port, path, sep, marker, id) ==
  [scheme |-> scheme, hostname |-> hostname, port |-> port, path |-> path,
   sep |-> sep, marker |-> marker, id |-> id]
NoLink == Link(NoValue, NoValue, NoValue, <<>>, NoValue, NoValue, NoValue)

\* \d+ and [0-9a-fA-F]{7,40} over the identifiers the inputs use.
IsDigits(s) == s \in {"42", "7"}
IsSha(s) == s \in {"abc1234", "ABCDEF0123"}

\* new URL(baseUrl).hostname: the host name without the port.
Hostname(baseUrl) == baseUrl.hostname
\* The first capture group [^\/]+ : everything between "//" and the next "/",
\* that is the host name with its port when the link has one.
Domain(url) == <<url.hostname, url.port>>

parseGitLabUrl(baseUrl, url) ==
  LET match == url.scheme \in {"http", "https"} /\ url.hostname # NoValue
               /\ Len(url.path) >= 1 /\ url.sep = "/-/" /\ url.marker = "issues"
               /\ IsDigits(url.id)
      domain == Domain(url)
      currentHost == Hostname(baseUrl)
  IN [ok |-> match,
      gitlabUrl |-> IF domain # <<currentHost, NoValue>>
                    THEN Url("https", url.hostname, url.port) ELSE baseUrl,
      projectId |-> url.path, id |-> url.id]

parseGitLabCommitUrl(baseUrl, url) ==
  LET match == url.scheme \in {"http", "https"} /\ url.hostname # NoValue
               /\ Len(url.path) >= 1 /\ url.sep = "/-/" /\ url.marker = "commit"
               /\ IsSha(url.id)
      domain == Domain(url)
      currentHost == Hostname(baseUrl)
  IN [ok |-> match,
      gitlabUrl |-> IF domain # <<currentHost, NoValue>>
                    THEN Url("https", url.hostname, url.port) ELSE baseUrl,
      projectId |-> url.path, id |-> url.id]

parseGitHubIssueUrl(url) ==
  [ok |-> url.scheme \in {"http", "https"} /\ url.hostname = "github.com"
          /\ url.port = NoValue /\ Len(url.path) = 2 /\ url.sep = "/"
          /\ url.marker = "issues" /\ IsDigits(url.id),
   owner |-> IF Len(url.path) = 2 THEN url.path[1] ELSE NoValue,
   repo |-> IF Len(url.path) = 2 THEN url.path[2] ELSE NoValue, id |-> url.id]

parseGitHubCommitUrl(url) ==
  [ok |-> url.scheme \in {"http", "https"} /\ url.hostname = "github.com"
          /\ url.port = NoValue /\ Len(url.path) = 2 /\ url.sep = "/"
          /\ url.marker = "commit" /\ IsSha(url.id),
   owner |-> IF Len(url.path) = 2 THEN url.path[1] ELSE NoValue,
   repo |-> IF Len(url.path) = 2 THEN url.path[2] ELSE NoValue, id |-> url.id]

---------------------------------------------------------------------------
(* The tool modules: each returns its tools in a fixed order.  A tool is   *)
(* identified here by its name; its handler is the branch of the handler   *)
(* operators below that the name selects.                                  *)

createGitLabTools ==
  <<"analyze_gitlab_issue_for_qa", "get_gitlab_issue_qa_summary",
    "gitlab_get_commit_by_url", "gitlab_get_commit", "gitlab_api_get">>
createHttpTools == <<"http_request">>
createDbTools == <<"postgres_query", "mysql_query", "mongo_query">>
createWebTools == <<"web_search">>
createGitHubTools ==
  <<"analyze_github_issue_for_qa", "get_github_issue_qa_summary",
    "github_get_commit_by_url", "github_get_commit", "github_api_get">>

Range(s) == {s[i] : i \in DOMAIN s}

\* GitLabQAMCPServer.constructor: the fields read from the environment.
ServerGitLabUrl(e) == IF e.GITLAB_URL # NoUrl THEN e.GITLAB_URL ELSE DefaultGitLabUrl
ServerAccessToken(e) == e.GITLAB_ACCESS_TOKEN
ServerGitHubAccessToken(e) == e.GITHUB_ACCESS_TOKEN

ConstructorToolsMutant(e) ==
  createGitLabTools \o createHttpTools \o createDbTools \o createWebTools \o createGitHubTools

\* GitLabQAMCPServer.constructor: the registry.
ConstructorTools(e) ==
  (IF ServerAccessToken(e) # NoValue THEN createGitLabTools ELSE <<>>)
  \o createHttpTools \o createDbTools \o createWebTools \o createGitHubTools

\* The ListTools request handler: the names of the registered tools, in order.
ListTools(registry) == registry

FindMutant(registry, name) ==
  IF \E i \in DOMAIN registry : registry[i] = name
  THEN CHOOSE i \in DOMAIN registry :
         registry[i] = name /\ \A j \in DOMAIN registry : registry[j] = name => i <= j
  ELSE IF registry # <<>> THEN 1 ELSE 0

\* this.tools.find(t => t.name === name): the index of the first tool of that
\* name, 0 for undefined.
Find(registry, name) ==
  IF \E i \in DOMAIN registry : registry[i] = name
  THEN CHOOSE i \in DOMAIN registry :
         registry[i] = name /\ \A j \in DOMAIN registry : registry[j] = name => i <= j
  ELSE 0

CatchMutant(name, outcome) ==
  IF outcome.kind = "return" THEN ResultResponse
  ELSE ErrorResponse(McpError(InternalError,
                              <<"Error ejecutando", name>> \o outcome.error.message))

\* The try/catch of the CallTool request handler around `await tool.handler(args)`.
Catch(name, outcome) ==
  IF outcome.kind = "return" THEN ResultResponse
  ELSE IF outcome.error.mcp THEN ErrorResponse(outcome.error)
  ELSE ErrorResponse(McpError(InternalError,
                              <<"Error ejecutando", name>> \o outcome.error.message))

\* `args.accessToken || ctx.accessToken`, `args.accessToken || defaultAccessToken`.
TokenOrMutant(argToken, default) == IF default # NoValue THEN default ELSE argToken

TokenOr(argToken, default) == IF argToken # NoValue THEN argToken ELSE default

\* `if (!accessToken) throw ...` of the GitHub handlers.
TokenMissingMutant(accessToken) == FALSE

TokenMissing(accessToken) == accessToken = NoValue

---------------------------------------------------------------------------
(* JavaScript strings and the regular expressions of helpers/qa.ts.  A     *)
(* string is a TLA+ string; positions count from 1, so lastIndex below is  *)
(* the position at which the next exec starts.                             *)

Char(s, i) == SubSeq(s, i, i)
Min(a, b) == IF a <= b THEN a ELSE b
Least(S) == CHOOSE i \in S : \A j \in S : i <= j
Greatest(S) == CHOOSE i \in S : \A j \in S : j <= i

\* String.prototype.toLowerCase, over the letters of Spanish and English text.
UpperCase == "ABCDEFGHIJKLMNOPQRSTUVWXYZÁÉÍÓÚÑ"
LowerCase == "abcdefghijklmnopqrstuvwxyzáéíóúñ"
UpperCaseLetters == {Char(UpperCase, i) : i \in 1..Len(UpperCase)}
toLowerCaseChar(ch) ==
  IF ch \notin UpperCaseLetters THEN ch
  ELSE Char(LowerCase, CHOOSE i \in 1..Len(UpperCase) : Char(UpperCase, i) = ch)

RECURSIVE toLowerCase(_)
toLowerCase(s) ==
  IF Len(s) = 0 THEN ""
  ELSE IF Len(s) = 1 THEN toLowerCaseChar(s)
  ELSE toLowerCase(SubSeq(s, 1, Len(s) \div 2))
       \o toLowerCase(SubSeq(s, Len(s) \div 2 + 1, Len(s)))

\* [A-Z] under the i flag.
AsciiLetters == {Char(LowerCase, i) : i \in 1..26}
IsLetter(ch) == toLowerCaseChar(ch) \in AsciiLetters

\* \s, and what String.prototype.trim removes.
Whitespace == {" ", "\t", "\n", "\r"}
\* [:\-\s]
Separators == Whitespace \cup {":", "-"}

trim(s) ==
  LET black == {i \in 1..Len(s) : Char(s, i) \notin Whitespace}
  IN IF black = {} THEN "" ELSE SubSeq(s, Least(black), Greatest(black))

StartsAt(s, i, k) == i + Len(k) - 1 <= Len(s) /\ SubSeq(s, i, i + Len(k) - 1) = k
\* String.prototype.includes
includes(s, k) == \E i \in 1..(Len(s) - Len(k) + 1) : SubSeq(s, i, i + Len(k) - 1) = k
\* RegExp.prototype.test for an alternation of literals: /a|b|c/.test(s)
test(s, alternatives) == \E k \in alternatives : includes(s, k)
\* /third.party/.test(s): the dot is any character but a line terminator.
testThirdParty(s) ==
  \E i \in 1..Len(s) :
    /\ StartsAt(s, i, "third") /\ StartsAt(s, i + 6, "party")
    /\ Char(s, i + 5) \notin {"\n", "\r"}

\* Array.prototype.join
RECURSIVE join(_, _)
join(seq, separator) ==
  IF seq = <<>> THEN ""
  ELSE IF Len(seq) = 1 THEN seq[1]
  ELSE seq[1] \o separator \o join(Tail(seq), separator)

\* Array.prototype.slice(start, end), start and end counted from 0.
sliceMutant(seq, start, end) == seq

slice(seq, start, end) == SubSeq(seq, start + 1, Min(end, Len(seq)))

\* [...new Set(seq)]: the first occurrence of every element, in order.
RECURSIVE SetOf(_)
SetOf(seq) ==
  IF seq = <<>> THEN <<>>
  ELSE LET front == SetOf(SubSeq(seq, 1, Len(seq) - 1))
           last == seq[Len(seq)]
       IN IF last \in Range(front) THEN front ELSE Append(front, last)

\* The result of RegExp.prototype.exec: null, or match[1] and the lastIndex
\* the expression is left with.
NoMatch == [found |-> FALSE, capture |-> "", lastIndex |-> 0]
Match(capture, lastIndex) == [found |-> TRUE, capture |-> capture, lastIndex |-> lastIndex]

\* The positions from `from` on at which one of the literals keys begins, and
\* the position after the literal that begins at i.
Occurrences(s, keys, from) == {i \in from..Len(s) : \E k \in keys : StartsAt(s, i, k)}
KeyEnd(s, i, keys) == i + Len(CHOOSE k \in keys : StartsAt(s, i, k))
\* A greedy run of characters of a class, from i: the position after it.
Skip(s, i, class) == Least({j \in i..(Len(s) + 1) : j = Len(s) + 1 \/ Char(s, j) \notin class})

\* (?:\n\n|\n[A-Z]|$) and (?:\n|\.|$) match at position j; $ is the end of the
\* input (no m flag).
ParagraphEnd(s, j) ==
  \/ j = Len(s) + 1
  \/ /\ j < Len(s) /\ Char(s, j) = "\n"
     /\ (Char(s, j + 1) = "\n" \/ IsLetter(Char(s, j + 1)))
LineEnd(s, j) == j = Len(s) + 1 \/ Char(s, j) \in {"\n", "."}
\* The position after a terminator of length n matched at j.
After(s, j, n) == IF j = Len(s) + 1 THEN j ELSE j + n

\* /(?:k1|k2|..)s?[:\-\s]*(.*?)(?:\n\n|\n[A-Z]|$)/gis  (plural, paragraph)
\* /(?:k1|k2|..)[:\-\s]*(.*?)(?:\n|\.|$)/gis
\* The leftmost keyword matches; the greedy s? and separators never give back,
\* because the lazy capture can always reach a terminator; the capture ends at
\* the first terminator.
execKeyword(str, lower, lastIndex, keys, plural, paragraph) ==
  LET starts == Occurrences(lower, keys, lastIndex)
  IN IF starts = {} THEN NoMatch
     ELSE LET e == KeyEnd(lower, Least(starts), keys)
              e2 == IF plural /\ e <= Len(str) /\ Char(lower, e) = "s" THEN e + 1 ELSE e
              cs == Skip(str, e2, Separators)
              q == Least({j \in cs..(Len(str) + 1) :
                            IF paragraph THEN ParagraphEnd(str, j) ELSE LineEnd(str, j)})
          IN Match(SubSeq(str, cs, q - 1), After(str, q, IF paragraph THEN 2 ELSE 1))

\* /(?:k1).*?(?:k2).*?(?:k3)(.*?)(?:\n|\.|$)/gis: each lazy .*? (the dot matches
\* newlines under the s flag) stops at the first occurrence of the next keyword.
execChain(str, lower, lastIndex, k1, k2, k3) ==
  LET s1 == Occurrences(lower, k1, lastIndex)
      s2 == Occurrences(lower, k2, KeyEnd(lower, Least(s1), k1))
      s3 == Occurrences(lower, k3, KeyEnd(lower, Least(s2), k2))
  IN IF s1 = {} THEN NoMatch
     ELSE IF s2 = {} THEN NoMatch
     ELSE IF s3 = {} THEN NoMatch
     ELSE LET cs == KeyEnd(lower, Least(s3), k3)
              q == Least({j \in cs..(Len(str) + 1) : LineEnd(str, j)})
          IN Match(SubSeq(str, cs, q - 1), After(str, q, 1))

\* /(?:criterios? de aceptaci[oó]n|acceptance criteria)[:\-\s]*((?:.*\n)*?)(?:\n[A-Z]|\n\n|$)/gis
AcceptanceKeys ==
  {"criterio de aceptacion", "criterio de aceptación", "criterios de aceptacion",
   "criterios de aceptación", "acceptance criteria"}

\* The capture is a lazy repetition of greedy `.*\n`: empty if a terminator
\* follows the separators, and otherwise everything up to the last newline that
\* a terminator follows.  When neither exists the separators give back one
\* character at a time, and when that fails too the next keyword is tried.
execCriteria(str, lower, lastIndex) ==
  LET Closing(cs) == {n \in cs..Len(str) : Char(str, n) = "\n" /\ ParagraphEnd(str, n + 1)}
      Starts(p) == {cs \in KeyEnd(lower, p, AcceptanceKeys)
                             ..Skip(str, KeyEnd(lower, p, AcceptanceKeys), Separators) :
                      ParagraphEnd(str, cs) \/ Closing(cs) # {}}
      starts == {p \in Occurrences(lower, AcceptanceKeys, lastIndex) : Starts(p) # {}}
  IN IF starts = {} THEN NoMatch
     ELSE LET cs == Greatest(Starts(Least(starts)))
              n == Greatest(Closing(cs))
          IN IF ParagraphEnd(str, cs) THEN Match("", After(str, cs, 2))
             ELSE Match(SubSeq(str, cs, n), After(str, n + 1, 2))

\* /[-\*]\s*(.+?)(?:\n|$)/g: no s flag, so the capture is the rest of the line
\* the first non-blank character after the bullet is on, and a carriage return
\* on that line lets no capture with visible text match.  A bullet followed by
\* blank space only gives at most a blank capture, which the caller drops.
execBullet(str, lastIndex) ==
  LET Text(p) == Skip(str, p + 1, Whitespace)
      Eol(p) == Least({j \in Text(p)..(Len(str) + 1) : j = Len(str) + 1 \/ Char(str, j) = "\n"})
      starts == {p \in lastIndex..Len(str) :
                   /\ Char(str, p) \in {"-", "*"}
                   /\ Text(p) <= Len(str)
                   /\ \A j \in Text(p)..(Eol(p) - 1) : Char(str, j) # "\r"}
  IN IF starts = {} THEN NoMatch
     ELSE LET p == Least(starts)
          IN Match(SubSeq(str, Text(p), Eol(p) - 1), After(str, Eol(p), 1))

\* pattern.exec(str) for the six expressions of extractRequirements and
\* extractAcceptanceCriteria.
exec(pattern, str, lower, lastIndex) ==
  CASE pattern = "requirement" ->
         execKeyword(str, lower, lastIndex, {"requisito", "requerimiento", "requirement"},
                     TRUE, TRUE)
    [] pattern = "must" ->
         execKeyword(str, lower, lastIndex, {"necesita", "debe", "should", "must"},
                     FALSE, FALSE)
    [] pattern = "story" ->
         execChain(str, lower, lastIndex, {"como", "as a"}, {"quiero", "want", "need"},
                   {"para", "so that"})
    [] pattern = "criteria" -> execCriteria(str, lower, lastIndex)
    [] pattern = "given" ->
         execChain(str, lower, lastIndex, {"dado", "given"}, {"cuando", "when"},
                   {"entonces", "then"})
    [] OTHER -> execBullet(str, lastIndex)

\* `while ((match = pattern.exec(description)) !== null)`: match[1] of every
\* match, in order.
RECURSIVE captures(_, _, _, _)
captures(pattern, str, lower, lastIndex) ==
  LET match == exec(pattern, str, lower, lastIndex)
  IN IF ~match.found THEN <<>>
     ELSE <<match.capture>> \o captures(pattern, str, lower, match.lastIndex)

\* `const req = match[1].trim(); if (req.length > n) list.push(req)` over the
\* captures of one pattern.
RECURSIVE pushed(_, _)
pushed(caps, n) ==
  IF caps = <<>> THEN <<>>
  ELSE IF Len(trim(Head(caps))) > n THEN <<trim(Head(caps))>> \o pushed(Tail(caps), n)
  ELSE pushed(Tail(caps), n)

---------------------------------------------------------------------------
(* helpers/qa.ts: the analyzer and the formatter.                          *)

\* extractRequirements
extractRequirementsMutant(issueData) ==
  LET description == issueData.description
      lower == toLowerCase(description)
  IN SetOf(pushed(captures("requirement", description, lower, 1), 10)
           \o pushed(captures("must", description, lower, 1), 10)
           \o pushed(captures("story", description, lower, 1), 10))

extractRequirements(issueData) ==
  LET description == issueData.description
      lower == toLowerCase(description)
      requirements == pushed(captures("requirement", description, lower, 1), 10)
                      \o pushed(captures("must", description, lower, 1), 10)
                      \o pushed(captures("story", description, lower, 1), 10)
  IN IF Len(requirements) = 0 THEN <<"Implementar: " \o issueData.title>>
     ELSE requirements

\* extractAcceptanceCriteria: no fallback.
extractAcceptanceCriteriaMutant(issueData) ==
  LET description == issueData.description
      lower == toLowerCase(description)
      criteria == pushed(captures("criteria", description, lower, 1), 5)
                  \o pushed(captures("given", description, lower, 1), 5)
                  \o pushed(captures("bullet", description, lower, 1), 5)
  IN IF Len(criteria) = 0 THEN <<"Verificar: " \o issueData.title>> ELSE criteria

extractAcceptanceCriteria(issueData) ==
  LET description == issueData.description
      lower == toLowerCase(description)
  IN pushed(captures("criteria", description, lower, 1), 5)
     \o pushed(captures("given", description, lower, 1), 5)
     \o pushed(captures("bullet", description, lower, 1), 5)

\* testingSuggestions of generateTestingSuggestions.
testingSuggestions ==
  <<[keywords |-> {"login", "auth", "password", "usuario"},
     tests |-> <<"Verificar login con credenciales válidas",
                 "Verificar error con credenciales inválidas",
                 "Verificar logout funciona correctamente",
                 "Probar casos de seguridad (inyección, XSS)">>],
    [keywords |-> {"form", "formulario", "input", "campo"},
     tests |-> <<"Validar todos los campos obligatorios",
                 "Probar validaciones de formato",
                 "Verificar mensajes de error apropiados",
                 "Probar envío con datos válidos e inválidos">>],
    [keywords |-> {"api", "endpoint", "service"},
     tests |-> <<"Probar respuestas con datos válidos",
                 "Verificar manejo de errores HTTP",
                 "Validar estructura de respuestas JSON",
                 "Probar autenticación y autorización">>],
    [keywords |-> {"ui", "interfaz", "button", "botón"},
     tests |-> <<"Verificar diseño responsive",
                 "Probar accesibilidad (WCAG)",
                 "Validar navegación entre pantallas",
                 "Verificar estados de loading y error">>],
    [keywords |-> {"database", "datos", "guardar", "save"},
     tests |-> <<"Verificar persistencia de datos",
                 "Probar integridad referencial",
                 "Validar rollback en errores",
                 "Probar concurrencia de acceso">>]>>

\* The suggestions pushed after the loop over testingSuggestions.
universalSuggestions ==
  <<"Verificar que el cambio no rompe funcionalidad existente",
    "Probar en diferentes navegadores/dispositivos",
    "Validar performance bajo carga normal",
    "Revisar logs de errores durante las pruebas">>

\* `if (keywords.some(k => fullText.includes(k))) suggestions.push(...tests)`
pushTestsMutant(fullText, mapping) == mapping.tests

pushTests(fullText, mapping) ==
  IF \E keyword \in mapping.keywords : includes(fullText, keyword)
  THEN mapping.tests ELSE <<>>

\* generateTestingSuggestions
generateTestingSuggestionsMutant(issueData, fullText) ==
  LET suggestions == pushTests(fullText, testingSuggestions[1]) \o pushTests(fullText, testingSuggestions[2])
                     \o pushTests(fullText, testingSuggestions[3]) \o pushTests(fullText, testingSuggestions[4])
                     \o pushTests(fullText, testingSuggestions[5])
  IN SetOf(IF Len(suggestions) = 0 THEN universalSuggestions ELSE suggestions)

generateTestingSuggestions(issueData, fullText) ==
  SetOf(pushTests(fullText, testingSuggestions[1]) \o pushTests(fullText, testingSuggestions[2])
        \o pushTests(fullText, testingSuggestions[3]) \o pushTests(fullText, testingSuggestions[4])
        \o pushTests(fullText, testingSuggestions[5]) \o universalSuggestions)

\* `if (pattern.test(fullText)) list.push(message)`
pushIf(matches, message) == IF matches THEN <<message>> ELSE <<>>

\* criticalLabels of identifyRiskAreas.
criticalLabels == {"critical", "crítico", "high-priority", "security", "bug"}
highPriority == "Alta prioridad - requiere testing completo antes de release"

\* `labels.some(label => criticalLabels.includes(label.toLowerCase()))`
someCriticalMutant(labels) == \E i \in DOMAIN labels : labels[i] \in criticalLabels

someCritical(labels) == \E i \in DOMAIN labels : toLowerCase(labels[i]) \in criticalLabels

\* identifyRiskAreas
identifyRiskAreasMutant(fullText, labels) ==
  pushIf(test(fullText, {"security", "seguridad", "auth", "password"}) \/ someCritical(labels),
         "Seguridad - requiere testing exhaustivo")
  \o pushIf(someCritical(labels), highPriority)

identifyRiskAreas(fullText, labels) ==
  pushIf(test(fullText, {"security", "seguridad", "auth", "password"}),
         "Seguridad - requiere testing exhaustivo")
  \o pushIf(test(fullText, {"payment", "pago", "billing", "facturación"}),
            "Pagos - crítico para el negocio")
  \o pushIf(test(fullText, {"data", "datos", "database"}),
            "Integridad de datos - riesgo de pérdida")
  \o pushIf(test(fullText, {"migration", "migración"}), "Migración - riesgo de downtime")
  \o pushIf(test(fullText, {"integration", "integración"}) \/ testThirdParty(fullText),
            "Integraciones externas - dependencias")
  \o pushIf(test(fullText, {"performance", "rendimiento"}), "Performance - impacto en UX")
  \o pushIf(someCritical(labels), highPriority)

\* The rules of determineTestTypes, in order, and the two types pushed after them.
typeMapping ==
  <<[pattern |-> {"unit", "unitario"}, type |-> "Testing Unitario"],
    [pattern |-> {"integration", "integración"}, type |-> "Testing de Integración"],
    [pattern |-> {"ui", "interfaz", "frontend"}, type |-> "Testing de UI/UX"],
    [pattern |-> {"api", "service", "backend"}, type |-> "Testing de API"],
    [pattern |-> {"performance", "rendimiento"}, type |-> "Testing de Performance"],
    [pattern |-> {"security", "seguridad"}, type |-> "Testing de Seguridad"],
    [pattern |-> {"mobile", "móvil"}, type |-> "Testing Mobile"],
    [pattern |-> {"accessibility", "accesibilidad"}, type |-> "Testing de Accesibilidad"]>>
baselineTestTypes == <<"Testing Funcional", "Testing de Regresión">>

pushTypeMutant(fullText, rule) == <<rule.type>>

pushType(fullText, rule) == pushIf(test(fullText, rule.pattern), rule.type)

\* determineTestTypes: labels is a parameter the body never reads.
determineTestTypesMutant(fullText, labels) ==
  SetOf(pushType(fullText, typeMapping[1]) \o pushType(fullText, typeMapping[2])
        \o pushType(fullText, typeMapping[3]) \o pushType(fullText, typeMapping[4])
        \o pushType(fullText, typeMapping[5])
        \o pushIf(test(fullText, typeMapping[6].pattern) \/ someCritical(labels),
                  typeMapping[6].type)
        \o pushType(fullText, typeMapping[7]) \o pushType(fullText, typeMapping[8])
        \o baselineTestTypes)

determineTestTypes(fullText, labels) ==
  SetOf(pushType(fullText, typeMapping[1]) \o pushType(fullText, typeMapping[2])
        \o pushType(fullText, typeMapping[3]) \o pushType(fullText, typeMapping[4])
        \o pushType(fullText, typeMapping[5]) \o pushType(fullText, typeMapping[6])
        \o pushType(fullText, typeMapping[7]) \o pushType(fullText, typeMapping[8])
        \o baselineTestTypes)

\* `${title} ${description}` of the lower-cased title and description.
fullTextOf(issueData) ==
  toLowerCase(issueData.title) \o " " \o toLowerCase(issueData.description)

\* analyzeIssueForQA
analyzeIssueForQA(issueData) ==
  LET fullText == fullTextOf(issueData)
  IN [requirements |-> extractRequirements(issueData),
      acceptanceCriteria |-> extractAcceptanceCriteria(issueData),
      testingSuggestions |-> generateTestingSuggestions(issueData, fullText),
      riskAreas |-> identifyRiskAreas(fullText, issueData.labels),
      testTypes |-> determineTestTypes(fullText, issueData.labels)]

\* `list.map((x, index) => `${index + 1}. ${x}`)`
RECURSIVE numberedFrom(_, _)
numberedFrom(list, index) ==
  IF list = <<>> THEN <<>>
  ELSE <<ToString(index + 1) \o ". " \o Head(list)>> \o numberedFrom(Tail(list), index + 1)
\* `list.map(...).join('\n')`, as lines: the empty list gives the empty text.
numberedMutant(list) == IF list = <<>> THEN <<"">> ELSE numberedFrom(list, 1)

numbered(list) == IF list = <<>> THEN <<"">> ELSE numberedFrom(list, 0)

\* new Date(created_at).toLocaleDateString('es-ES') of an ISO 8601 timestamp
\* "YYYY-MM-DDThh:mm:ssZ": "D/M/YYYY".  The timestamps used are at noon UTC, so
\* the local date is the UTC date wherever the process runs.
withoutLeadingZero(digits) == IF Char(digits, 1) = "0" THEN Char(digits, 2) ELSE digits
toLocaleDateString(created_at) ==
  withoutLeadingZero(SubSeq(created_at, 9, 10)) \o "/"
  \o withoutLeadingZero(SubSeq(created_at, 6, 7)) \o "/" \o SubSeq(created_at, 1, 4)

\* The text of one comment, `**name** (date):\nbody\n`, as its lines.
commentLines(comment) ==
  <<"**" \o comment.author.name \o "** (" \o toLocaleDateString(comment.created_at) \o "):",
    comment.body, "">>

\* `.join('\n---\n')` of the comment texts, as lines.
RECURSIVE joinComments(_)
joinComments(comments) ==
  IF comments = <<>> THEN <<>>
  ELSE IF Len(comments) = 1 THEN commentLines(comments[1])
  ELSE commentLines(comments[1]) \o <<"---">> \o joinComments(Tail(comments))

onlyThreeNote == "*(Mostrando solo los 3 comentarios más recientes)*"
commentsHeader(n) == "## Comentarios Relevantes (" \o ToString(n) \o ")"

\* The comments block of the template: empty text (one empty line) for an
\* empty list.
commentsSection(comments) ==
  IF Len(comments) > 0
  THEN <<commentsHeader(Len(comments))>> \o joinComments(slice(comments, 0, 3))
       \o (IF Len(comments) > 3 THEN <<onlyThreeNote>> ELSE <<>>)
  ELSE <<"">>

\* formatQAAnalysis: the report, as the sequence of the lines of the template
\* string (an interpolated value may itself hold newlines).  The pictographs
\* of the headers are left out.
formatQAAnalysis(issueData, qaAnalysis, comments) ==
  <<"# Análisis QA Completo", "",
    "## Información del Issue",
    "**Proyecto:** " \o issueData.project_name,
    "**Issue:** #" \o ToString(issueData.iid) \o " - " \o issueData.title,
    "**Estado:** " \o issueData.state,
    "**Autor:** " \o issueData.author,
    "**Asignados:** " \o (IF Len(issueData.assignees) > 0 THEN join(issueData.assignees, ", ")
                          ELSE "Sin asignar"),
    "**Etiquetas:** " \o (IF Len(issueData.labels) > 0 THEN join(issueData.labels, ", ")
                          ELSE "Sin etiquetas"),
    "**URL:** " \o issueData.web_url, "",
    "## Requerimientos Identificados">>
  \o numbered(qaAnalysis.requirements)
  \o <<"", "## Criterios de Aceptación">>
  \o (IF Len(qaAnalysis.acceptanceCriteria) > 0 THEN numbered(qaAnalysis.acceptanceCriteria)
      ELSE <<"No se encontraron criterios de aceptación explícitos. Revisar descripción del issue.">>)
  \o <<"", "## Sugerencias de Testing">>
  \o numbered(qaAnalysis.testingSuggestions)
  \o <<"", "## Áreas de Riesgo Identificadas">>
  \o (IF Len(qaAnalysis.riskAreas) > 0 THEN numbered(qaAnalysis.riskAreas)
      ELSE <<"No se identificaron áreas de riesgo específicas.">>)
  \o <<"", "## Tipos de Testing Recomendados">>
  \o numbered(qaAnalysis.testTypes)
  \o <<"", "## Descripción Original del Issue",
       IF issueData.description # NoValue THEN issueData.description
       ELSE "Sin descripción proporcionada",
       "">>
  \o commentsSection(comments)
  \o <<"", "---", "*Análisis generado automáticamente por GitLab QA MCP Server*">>

---------------------------------------------------------------------------
(* index.ts: the analyzer and the formatter of the single-file server,     *)
(* methods of GitLabQAMCPServer.  Its six regular expressions are, sign    *)
(* for sign, those of helpers/qa.ts, which `exec` models.                  *)

GitLabQAMCPServer_extractRequirements(issueData) ==
  LET description == issueData.description
      lower == toLowerCase(description)
      requirements == pushed(captures("requirement", description, lower, 1), 10)
                      \o pushed(captures("must", description, lower, 1), 10)
                      \o pushed(captures("story", description, lower, 1), 10)
  IN IF Len(requirements) = 0 THEN <<"Implementar: " \o issueData.title>>
     ELSE requirements

GitLabQAMCPServer_extractAcceptanceCriteria(issueData) ==
  LET description == issueData.description
      lower == toLowerCase(description)
  IN pushed(captures("criteria", description, lower, 1), 5)
     \o pushed(captures("given", description, lower, 1), 5)
     \o pushed(captures("bullet", description, lower, 1), 5)

\* testingSuggestions of GitLabQAMCPServer.generateTestingSuggestions.
GitLabQAMCPServer_testingSuggestions ==
  <<[keywords |-> {"login", "auth", "password", "usuario"},
     tests |-> <<"Verificar login con credenciales válidas",
                 "Verificar error con credenciales inválidas",
                 "Verificar logout funciona correctamente",
                 "Probar casos de seguridad (inyección, XSS)">>],
    [keywords |-> {"form", "formulario", "input", "campo"},
     tests |-> <<"Validar todos los campos obligatorios",
                 "Probar validaciones de formato",
                 "Verificar mensajes de error apropiados",
                 "Probar envío con datos válidos e inválidos">>],
    [keywords |-> {"api", "endpoint", "service"},
     tests |-> <<"Probar respuestas con datos válidos",
                 "Verificar manejo de errores HTTP",
                 "Validar estructura de respuestas JSON",
                 "Probar autenticación y autorización">>],
    [keywords |-> {"ui", "interfaz", "button", "botón"},
     tests |-> <<"Verificar diseño responsive",
                 "Probar accesibilidad (WCAG)",
                 "Validar navegación entre pantallas",
                 "Verificar estados de loading y error">>],
    [keywords |-> {"database", "datos", "guardar", "save"},
     tests |-> <<"Verificar persistencia de datos",
                 "Probar integridad referencial",
                 "Validar rollback en errores",
                 "Probar concurrencia de acceso">>]>>

\* "Sugerencias generales siempre incluidas"
GitLabQAMCPServer_universalSuggestionsMutant ==
  <<"Verificar que el cambio no rompe funcionalidad existente",
    "Probar en diferentes navegadores/dispositivos",
    "Validar performance bajo carga normal">>

GitLabQAMCPServer_universalSuggestions ==
  <<"Verificar que el cambio no rompe funcionalidad existente",
    "Probar en diferentes navegadores/dispositivos",
    "Validar performance bajo carga normal",
    "Revisar logs de errores durante las pruebas">>

RECURSIVE GitLabQAMCPServer_forEachSuggestion(_, _)
GitLabQAMCPServer_forEachSuggestion(fullText, table) ==
  IF table = <<>> THEN <<>>
  ELSE (IF \E keyword \in Head(table).keywords : includes(fullText, keyword)
        THEN Head(table).tests ELSE <<>>)
       \o GitLabQAMCPServer_forEachSuggestion(fullText, Tail(table))

GitLabQAMCPServer_generateTestingSuggestions(issueData, fullText) ==
  SetOf(GitLabQAMCPServer_forEachSuggestion(fullText, GitLabQAMCPServer_testingSuggestions)
        \o GitLabQAMCPServer_universalSuggestions)

\* riskIndicators of GitLabQAMCPServer.identifyRiskAreas; third.party is the
\* one pattern that is no list of literals.
GitLabQAMCPServer_riskIndicators ==
  <<[pattern |-> {"security", "seguridad", "auth", "password"}, dot |-> FALSE,
     risk |-> "Seguridad - requiere testing exhaustivo"],
    [pattern |-> {"payment", "pago", "billing", "facturación"}, dot |-> FALSE,
     risk |-> "Pagos - crítico para el negocio"],
    [pattern |-> {"data", "datos", "database"}, dot |-> FALSE,
     risk |-> "Integridad de datos - riesgo de pérdida"],
    [pattern |-> {"migration", "migración"}, dot |-> FALSE,
     risk |-> "Migración - riesgo de downtime"],
    [pattern |-> {"integration", "integración"}, dot |-> TRUE,
     risk |-> "Integraciones externas - dependencias"],
    [pattern |-> {"performance", "rendimiento"}, dot |-> FALSE,
     risk |-> "Performance - impacto en UX"]>>

RECURSIVE GitLabQAMCPServer_forEachRisk(_, _)
GitLabQAMCPServer_forEachRisk(fullText, table) ==
  IF table = <<>> THEN <<>>
  ELSE (IF test(fullText, Head(table).pattern) \/ (Head(table).dot /\ testThirdParty(fullText))
        THEN <<Head(table).risk>> ELSE <<>>)
       \o GitLabQAMCPServer_forEachRisk(fullText, Tail(table))

GitLabQAMCPServer_identifyRiskAreas(fullText, labels) ==
  LET critical == {"critical", "crítico", "high-priority", "security", "bug"}
  IN GitLabQAMCPServer_forEachRisk(fullText, GitLabQAMCPServer_riskIndicators)
     \o (IF \E i \in DOMAIN labels : toLowerCase(labels[i]) \in critical
         THEN <<"Alta prioridad - requiere testing completo antes de release">>
         ELSE <<>>)

\* typeMapping of GitLabQAMCPServer.determineTestTypes.
GitLabQAMCPServer_typeMapping ==
  <<[pattern |-> {"unit", "unitario"}, type |-> "Testing Unitario"],
    [pattern |-> {"integration", "integración"}, type |-> "Testing de Integración"],
    [pattern |-> {"ui", "interfaz", "frontend"}, type |-> "Testing de UI/UX"],
    [pattern |-> {"api", "service", "backend"}, type |-> "Testing de API"],
    [pattern |-> {"performance", "rendimiento"}, type |-> "Testing de Performance"],
    [pattern |-> {"security", "seguridad"}, type |-> "Testing de Seguridad"],
    [pattern |-> {"mobile", "móvil"}, type |-> "Testing Mobile"],
    [pattern |-> {"accessibility", "accesibilidad"}, type |-> "Testing de Accesibilidad"]>>

RECURSIVE GitLabQAMCPServer_forEachType(_, _)
GitLabQAMCPServer_forEachType(fullText, table) ==
  IF table = <<>> THEN <<>>
  ELSE (IF test(fullText, Head(table).pattern) THEN <<Head(table).type>> ELSE <<>>)
       \o GitLabQAMCPServer_forEachType(fullText, Tail(table))

\* labels is a parameter the body never reads.
GitLabQAMCPServer_determineTestTypes(fullText, labels) ==
  SetOf(GitLabQAMCPServer_forEachType(fullText, GitLabQAMCPServer_typeMapping)
        \o <<"Testing Funcional", "Testing de Regresión">>)

GitLabQAMCPServer_analyzeIssueForQA(issueData) ==
  LET description == toLowerCase(issueData.description)
      title == toLowerCase(issueData.title)
      fullText == title \o " " \o description
  IN [requirements |-> GitLabQAMCPServer_extractRequirements(issueData),
      acceptanceCriteria |-> GitLabQAMCPServer_extractAcceptanceCriteria(issueData),
      testingSuggestions |-> GitLabQAMCPServer_generateTestingSuggestions(issueData, fullText),
      riskAreas |-> GitLabQAMCPServer_identifyRiskAreas(fullText, issueData.labels),
      testTypes |-> GitLabQAMCPServer_determineTestTypes(fullText, issueData.labels)]

\* GitLabQAMCPServer.formatQAAnalysis: the report as the sequence of the
\* lines of the template string, the pictographs of the headers left out.
GitLabQAMCPServer_formatQAAnalysis(issueData, qaAnalysis, comments) ==
  <<"# Análisis QA Completo", "",
    "## Información del Issue",
    "**Proyecto:** " \o issueData.project_name,
    "**Issue:** #" \o ToString(issueData.iid) \o " - " \o issueData.title,
    "**Estado:** " \o issueData.state,
    "**Autor:** " \o issueData.author,
    "**Asignados:** " \o (IF Len(issueData.assignees) > 0 THEN join(issueData.assignees, ", ")
                          ELSE "Sin asignar"),
    "**Etiquetas:** " \o (IF Len(issueData.labels) > 0 THEN join(issueData.labels, ", ")
                          ELSE "Sin etiquetas"),
    "**URL:** " \o issueData.web_url, "",
    "## Requerimientos Identificados">>
  \o numbered(qaAnalysis.requirements)
  \o <<"", "## Criterios de Aceptación">>
  \o (IF Len(qaAnalysis.acceptanceCriteria) > 0 THEN numbered(qaAnalysis.acceptanceCriteria)
      ELSE <<"No se encontraron criterios de aceptación explícitos. Revisar descripción del issue.">>)
  \o <<"", "## Sugerencias de Testing">>
  \o numbered(qaAnalysis.testingSuggestions)
  \o <<"", "## Áreas de Riesgo Identificadas">>
  \o (IF Len(qaAnalysis.riskAreas) > 0 THEN numbered(qaAnalysis.riskAreas)
      ELSE <<"No se identificaron áreas de riesgo específicas.">>)
  \o <<"", "## Tipos de Testing Recomendados">>
  \o numbered(qaAnalysis.testTypes)
  \o <<"", "## Descripción Original del Issue",
       IF issueData.description # NoValue THEN issueData.description
       ELSE "Sin descripción proporcionada",
       "">>
  \o (IF Len(comments) > 0
      THEN <<"## Comentarios Relevantes (" \o ToString(Len(comments)) \o ")">>
           \o joinComments(slice(comments, 0, 3))
           \o (IF Len(comments) > 3
               THEN <<"*(Mostrando solo los 3 comentarios más recientes)*">> ELSE <<>>)
      ELSE <<"">>)
  \o <<"", "---", "*Análisis generado automáticamente por GitLab QA MCP Server*">>

---------------------------------------------------------------------------
(* helpers/gitlab.ts and helpers/github.ts: the issue links as text.  The   *)
(* operators above that bear the names of the parsers work on a link that  *)
(* is already split into its parts; these work on the characters.          *)

Digits == {"0", "1", "2", "3", "4", "5", "6", "7", "8", "9"}
digitValue(ch) == CHOOSE v \in 0..9 : Char("0123456789", v + 1) = ch
\* parseInt(s, 10) of a run of decimal digits.
RECURSIVE parseInt(_)
parseInt(s) ==
  IF Len(s) = 0 THEN 0
  ELSE parseInt(SubSeq(s, 1, Len(s) - 1)) * 10 + digitValue(Char(s, Len(s)))

\* ^https?:\/\/ : the position after it, 0 when the text does not begin so.
SchemeEnd(url) ==
  IF StartsAt(url, 1, "https://") THEN 9 ELSE IF StartsAt(url, 1, "http://") THEN 8 ELSE 0
\* [^\/]+ from i: the position after the run (the run is empty when it is i).
NotSlash(s, i) ==
  IF i > Len(s) THEN Len(s) + 1
  ELSE Least({j \in i..(Len(s) + 1) : j = Len(s) + 1 \/ Char(s, j) = "/"})

\* url.match(...): null, or the capture groups.
Null == [found |-> FALSE, groups |-> <<>>]
Groups(groups) == [found |-> TRUE, groups |-> groups]

\* url.match(/^https?:\/\/([^\/]+)\/(.+)\/-\/issues\/(\d+)/): the first group
\* is all there is up to the first slash; the greedy (.+) reaches the last
\* "/-/issues/" that a digit follows; the greedy \d+ takes the whole run of
\* digits.  Nothing anchors the end of the text.
urlPattern(url) ==
  LET d == SchemeEnd(url)
      p == NotSlash(url, d) + 1
      markers == {m \in (p + 1)..Len(url) :
                    /\ StartsAt(url, m, "/-/issues/")
                    /\ m + 10 <= Len(url) /\ Char(url, m + 10) \in Digits}
  IN IF d = 0 \/ p = d + 1 \/ markers = {} THEN Null
     ELSE LET m == Greatest(markers)
          IN Groups(<<SubSeq(url, d, p - 2), SubSeq(url, p, m - 1),
                      SubSeq(url, m + 10, Skip(url, m + 10, Digits) - 1)>>)

\* url.match(/^https?:\/\/github\.com\/([^\/]+)\/([^\/]+)\/issues\/(\d+)/)
githubIssuePatternMutant(url) ==
  LET o == SchemeEnd(url) + 11
      r == NotSlash(url, o) + 1
      i == NotSlash(url, r)
      n == Skip(url, i + 8, Digits)
  IN IF /\ StartsAt(url, 1, "https://github.com/")
        /\ r > o + 1 /\ i > r /\ StartsAt(url, i, "/issues/") /\ n > i + 8
        /\ n = Len(url) + 1
     THEN Groups(<<SubSeq(url, o, r - 2), SubSeq(url, r, i - 1), SubSeq(url, i + 8, n - 1)>>)
     ELSE Null

githubIssuePattern(url) ==
  LET o == SchemeEnd(url) + 11
      r == NotSlash(url, o) + 1
      i == NotSlash(url, r)
      n == Skip(url, i + 8, Digits)
  IN IF /\ SchemeEnd(url) > 0 /\ StartsAt(url, SchemeEnd(url), "github.com/")
        /\ r > o + 1 /\ i > r /\ StartsAt(url, i, "/issues/") /\ n > i + 8
     THEN Groups(<<SubSeq(url, o, r - 2), SubSeq(url, r, i - 1), SubSeq(url, i + 8, n - 1)>>)
     ELSE Null

\* new URL(baseUrl).hostname of an http(s) URL without credentials: the text
\* between "//" and the first ":" or "/", in lower case.
hostname(baseUrl) ==
  LET d == SchemeEnd(baseUrl)
      e == Least({j \in d..(Len(baseUrl) + 1) :
                    j = Len(baseUrl) + 1 \/ Char(baseUrl, j) \in {"/", ":"}})
  IN toLowerCase(SubSeq(baseUrl, d, e - 1))

\* The result of a parser: the error it throws, or the object it returns.
Throws(error) == [thrown |-> TRUE, error |-> error, value |-> NoValue]
Returns(value) == [thrown |-> FALSE, error |-> NoError, value |-> value]

\* parseGitLabUrl(baseUrl, url) of helpers/gitlab.ts, on text.
parseGitLabUrlTextMutant(baseUrl, url) ==
  LET match == urlPattern(url)
  IN IF ~match.found
     THEN Throws(McpError(InvalidParams, <<"URL de issue de GitLab invalido">>))
     ELSE Returns([gitlabUrl |-> "https://" \o match.groups[1], projectId |-> match.groups[2],
                   issueIid |-> parseInt(match.groups[3])])

parseGitLabUrlText(baseUrl, url) ==
  LET match == urlPattern(url)
      domain == match.groups[1]
      currentHost == hostname(baseUrl)
      gitlabUrl == IF domain # currentHost THEN "https://" \o domain ELSE baseUrl
  IN IF ~match.found
     THEN Throws(McpError(InvalidParams, <<"URL de issue de GitLab invalido">>))
     ELSE Returns([gitlabUrl |-> gitlabUrl, projectId |-> match.groups[2],
                   issueIid |-> parseInt(match.groups[3])])

\* parseGitHubIssueUrl(url) of helpers/github.ts, on text.
parseGitHubIssueUrlText(url) ==
  LET m == githubIssuePattern(url)
  IN IF ~m.found
     THEN Throws(McpError(InvalidParams, <<"URL de issue de GitHub invalido">>))
     ELSE Returns([owner |-> m.groups[1], repo |-> m.groups[2],
                   issueNumber |-> parseInt(m.groups[3])])

\* encodeURIComponent over letters, digits, "-", "." and "/": only the slash is
\* escaped.
RECURSIVE encodeURIComponent(_)
encodeURIComponent(s) ==
  IF Len(s) = 0 THEN ""
  ELSE (IF Char(s, 1) = "/" THEN "%2F" ELSE Char(s, 1))
       \o encodeURIComponent(SubSeq(s, 2, Len(s)))

---------------------------------------------------------------------------
(* getIssueData and getGitHubIssueData: the object built from the bodies   *)
(* of the two responses.  A member of a body that may be null or missing   *)
(* is a sequence: empty when it is null or missing, and its value          *)
(* otherwise; so is a property of the object built, which is undefined     *)
(* when the sequence is empty.                                             *)

Absent == <<>>
Some(v) == <<v>>
\* `x || d` for x a string, null or undefined: d unless x is a string that
\* is not empty.
OrString(x, d) == IF x = Absent \/ x = Some("") THEN Some(d) ELSE x
\* `x || d` for x an array, null or undefined: d unless x is an array.
OrArray(x, d) == IF x = Absent THEN Some(d) ELSE x
\* `x.member`: reading a member of null or undefined throws a TypeError.
TypeError == RawError(<<"TypeError">>)
\* `list.map(x => x[member])`
RECURSIVE map(_, _)
map(list, member) ==
  IF list = <<>> THEN <<>> ELSE <<Head(list)[member]>> \o map(Tail(list), member)

\* The return statement of getIssueData (GitLab).
getIssueDataReturn(issue, project) ==
  IF issue.author = Absent THEN Throws(TypeError)
  ELSE Returns(
    [title |-> issue.title,
     description |-> OrString(issue.description, ""),
     labels |-> OrArray(issue.labels, <<>>),
     assignees |-> OrArray(IF issue.assignees = Absent THEN Absent
                           ELSE Some(map(issue.assignees[1], "username")), <<>>),
     author |-> Some(issue.author[1].username),
     state |-> issue.state,
     created_at |-> issue.created_at,
     updated_at |-> issue.updated_at,
     web_url |-> issue.web_url,
     project_name |-> project.name,
     iid |-> issue.iid])

\* The return statement of getGitHubIssueData.
getGitHubIssueDataReturn(issue, repository) ==
  IF issue.user = Absent THEN Throws(TypeError)
  ELSE Returns(
    [title |-> issue.title,
     description |-> OrString(issue.body, ""),
     labels |-> Some(map(OrArray(issue.labels, <<>>)[1], "name")),
     assignees |-> Some(map(OrArray(issue.assignees, <<>>)[1], "login")),
     author |-> Some(issue.user[1].login),
     state |-> issue.state,
     created_at |-> issue.created_at,
     updated_at |-> issue.updated_at,
     web_url |-> issue.html_url,
     project_name |-> repository.name,
     iid |-> issue.number])

---------------------------------------------------------------------------
(* web_search after its request: the items collected from the body of the  *)
(* response and the items returned.  A string member of the body that is   *)
(* missing is "", which the conditions treat alike.                        *)

\* The number of items returned when maxResults is not a positive number.
DefaultMaxResults == 5

\* A related topic, or a subtopic of a group; a group has no Text of its own.
RelatedTopic(Text, FirstURL, Topics) ==
  [Text |-> Text, FirstURL |-> FirstURL, Topics |-> Topics]

\* `{ title: data.Heading || "", url: data.AbstractURL, snippet: data.Abstract || "" }`
abstractItem(data) ==
  [title |-> data.Heading, url |-> data.AbstractURL, snippet |-> data.Abstract]

\* `{ title: topic.Text || "", url: topic.FirstURL, snippet: topic.Text || "" }`
topicItem(topic) == [title |-> topic.Text, url |-> topic.FirstURL, snippet |-> topic.Text]

\* The body of data.RelatedTopics.forEach: what one related topic t adds.
topicItems(t) ==
  IF t.Text # ""
  THEN IF t.FirstURL # "" THEN <<topicItem(t)>> ELSE <<>>
  ELSE IF t.Topics # <<>> /\ t.Topics[1].FirstURL # ""
       THEN <<topicItem(t.Topics[1])>>
       ELSE <<>>

RECURSIVE forEachTopic(_)
forEachTopic(topics) ==
  IF topics = <<>> THEN <<>> ELSE topicItems(Head(topics)) \o forEachTopic(Tail(topics))

\* `items` after the two pushes; data is `res.data || {}`.
collectItemsMutant(data) ==
  IF data = Absent THEN <<>>
  ELSE (IF data[1].RelatedTopics = Absent THEN <<>>
        ELSE forEachTopic(data[1].RelatedTopics[1]))
       \o (IF data[1].Abstract # "" /\ data[1].AbstractURL # ""
           THEN <<abstractItem(data[1])>> ELSE <<>>)

collectItems(data) ==
  IF data = Absent THEN <<>>
  ELSE (IF data[1].Abstract # "" /\ data[1].AbstractURL # ""
        THEN <<abstractItem(data[1])>> ELSE <<>>)
       \o (IF data[1].RelatedTopics = Absent THEN <<>>
           ELSE forEachTopic(data[1].RelatedTopics[1]))

\* `args.maxResults && args.maxResults > 0 ? args.maxResults : 5`
maxOf(maxResults) ==
  IF maxResults # Absent /\ maxResults[1] # 0 /\ maxResults[1] > 0
  THEN maxResults[1] ELSE DefaultMaxResults

---------------------------------------------------------------------------
(* State.                                                                  *)

VARIABLES
  env,                  \* process.env: GITLAB_URL, GITLAB_ACCESS_TOKEN, GITHUB_ACCESS_TOKEN
  tools,                \* GitLabQAMCPServer.tools, as the sequence of tool names
  ctx,                  \* the ctx object shared by the five GitLab handlers
  defaultAccessToken,   \* the default token closed over by the five GitHub handlers
  calls,                \* the tool calls in flight, by slot
  served,               \* history: a call that sent requests with its own accessToken
                        \* argument has ended
  qa,                   \* one run of the analyzer and the formatter: the issue body,
                        \* the IssueData, the QAAnalysis, the comments and the report
  fetch,                \* one run of a fetcher's return statement: the provider, the
                        \* body of the issue response and the IssueData built from it
  search,               \* one web_search call after its request: maxResults, the body
                        \* of the response, the items collected and the items returned
  link                  \* one by-URL analyze call on the text of its link, up to its
                        \* first await: the configured base URL, ctx.gitlabUrl, the
                        \* link, what the parser gave and the URLs of the requests sent

server == <<env, tools, ctx, defaultAccessToken, calls, served>>
vars == <<env, tools, ctx, defaultAccessToken, calls, served, qa, link, fetch, search>>

\* No run of the analyzer under way.
NoQA ==
  [pc |-> "idle", issue |-> NoValue, issueData |-> NoValue, qaAnalysis |-> NoValue,
   notes |-> <<>>, comments |-> <<>>, formatted |-> <<>>]

\* No run of a fetcher's return statement under way.
NoFetch == [pc |-> "idle", provider |-> NoValue, issue |-> NoValue, issueData |-> Returns(NoValue)]

\* No web_search call under way.
NoSearch ==
  [pc |-> "idle", maxResults |-> Absent, data |-> NoValue, items |-> <<>>, returned |-> <<>>]

\* No by-URL call on the text of a link under way.
NoParse ==
  [pc |-> "idle", tool |-> NoValue, baseUrl |-> NoValue, gitlabUrl |-> NoValue,
   issueUrl |-> NoValue,
   parsed |-> Returns(NoValue), requests |-> <<>>]

Slots == DOMAIN calls

---------------------------------------------------------------------------
(* Inputs: the environment, the arguments of a call, and what the upstream *)
(* services answer.                                                        *)

Environments ==
  [GITLAB_URL : {NoUrl, Url("http", "gitlab.local", "8080")},
   GITLAB_ACCESS_TOKEN : {NoValue, "glpat-env"},
   GITHUB_ACCESS_TOKEN : {NoValue, "ghp-env"}]

ArgTokens == {NoValue, "call-token"}

GitLabLinks ==
  {Link("https", "gitlab.com", NoValue, <<"ns", "proj">>, "/-/", "issues", "42"),
   Link("http", "gitlab.local", "8080", <<"ns", "proj">>, "/-/", "issues", "7"),
   Link("https", "gitlab.com", NoValue, <<"ns", "proj">>, "/-/", "commit", "abc1234"),
   Link("http", "gitlab.local", "8080", <<"ns", "proj">>, "/-/", "commit", "ABCDEF0123")}

GitHubLinks ==
  {Link("https", "github.com", NoValue, <<"o", "r">>, "/", "issues", "7"),
   Link("https", "github.com", NoValue, <<"o", "r">>, "/", "commit", "abc1234")}

SupportedOperations == {"find_one", "find_many", "insert_one", "update_many", "delete_many"}
Operations == {"find_one", "FIND_MANY", "delete_many", "drop"}

Args(accessToken, url, operation) ==
  [accessToken |-> accessToken, url |-> url, operation |-> operation]

GitLabNames == Range(createGitLabTools)
GitHubNames == Range(createGitHubTools)
ByUrlNames == {"analyze_gitlab_issue_for_qa", "gitlab_get_commit_by_url"}

\* The names a client may ask for: the fifteen of the catalog and one that no
\* module defines.
RequestNames ==
  GitLabNames \cup GitHubNames \cup Range(createHttpTools) \cup Range(createDbTools)
  \cup Range(createWebTools) \cup {"unknown_tool"}

\* The arguments a client sends with a call of that name.
ArgsFor(name) ==
  IF name \in ByUrlNames
    THEN {Args(t, u, NoValue) : t \in ArgTokens, u \in GitLabLinks}
  ELSE IF name \in {"analyze_github_issue_for_qa", "github_get_commit_by_url"}
    THEN {Args(t, u, NoValue) : t \in ArgTokens, u \in GitHubLinks}
  ELSE IF name \in GitLabNames \cup GitHubNames
    THEN {Args(t, NoLink, NoValue) : t \in ArgTokens}
  ELSE IF name = "mongo_query"
    THEN {Args(NoValue, NoLink, o) : o \in Operations}
  ELSE {Args(NoValue, NoLink, NoValue)}

\* What an awaited upstream operation settles with.
Settlements == {"ok", "fail"}

\* Bodies of GET .../issues/:iid/notes (GitLab) and GET .../issues/:n/comments
\* (GitHub): GitLab notes carry `system` and `author`, GitHub comments carry the
\* commenter under `user`.
GitLabNotes ==
  {<<>>, <<[system |-> TRUE, author |-> "root"], [system |-> FALSE, author |-> "ana"]>>}
GitHubComments == {<<>>, <<[user |-> "octocat"]>>}

---------------------------------------------------------------------------
(* A tool call.                                                            *)

IdleCall ==
  [pc |-> "idle", name |-> NoValue, args |-> Args(NoValue, NoLink, NoValue),
   handler |-> NoValue, token |-> NoValue, reqs |-> <<>>, settled |-> <<>>,
   ran |-> <<>>, conn |-> "none", outcome |-> Pending, response |-> NoResponse]

\* One upstream operation started by the call: an HTTP request (to, token) or a
\* database driver operation.
Send(call, to, token, what) ==
  [call EXCEPT !.reqs = Append(@, [to |-> to, token |-> token, what |-> what])]
Await(call, pc) == [call EXCEPT !.pc = pc]
\* The awaited operations of the call settle with these results, in the order
\* in which they were started.
Settled(call, results) == [call EXCEPT !.settled = @ \o results]
\* The handler has called f (getIssueData's return of the IssueData object,
\* analyzeIssueForQA, formatQAAnalysis).
Ran(call, f) == [call EXCEPT !.ran = Append(@, f)]
Finish(call, outcome) == [call EXCEPT !.pc = "done", !.outcome = outcome]

\* The catch block of makeGitLabRequest / makeGitHubRequest.
makeGitLabRequestError == McpError(InternalError, <<"Error de GitLab API">>)
makeGitHubRequestError == McpError(InternalError, <<"Error de GitHub API">>)

\* `catch (error) { throw new McpError(ErrorCode.InternalError, error?.message) }`
\* of the http, web and database handlers.
WrapInternal(error) == McpError(InternalError, error.message)

\* `await Promise.all([issue request, project/repo request])`: resumes with both
\* bodies when both promises fulfil and rejects when either rejects.
PromiseAllMutant(a, b) == a = "ok"

PromiseAll(a, b) == a = "ok" /\ b = "ok"

NotSystem(c) == ~c.system

\* `const userComments = comments.filter((c) => !c.system)`
userCommentsMutant(comments) == comments

userComments(comments) == SelectSeq(comments, NotSystem)

\* formatQAAnalysis reads comment.author.name of each of the first 3 comments:
\* a comment without `author` makes it throw a TypeError.
formatQAAnalysisThrows(comments) ==
  \E i \in 1..Min(Len(comments), 3) : "author" \notin DOMAIN comments[i]

---------------------------------------------------------------------------
(* The handlers.  Each operator is one handler; it takes the call at the   *)
(* point `call.pc` where it is suspended ("idle": not yet started) and     *)
(* what the awaited operation settled with, runs the handler to its next   *)
(* await or to its end, and gives the call and the shared ctx afterwards.  *)

Step(call, cx) == [call |-> call, ctx |-> cx]

\* getIssueData / getGitHubIssueData up to the await of Promise.all: both
\* requests are issued before either is awaited.
getIssueData(call, gitlabUrl, token) ==
  Await(Send(Send(call, gitlabUrl, token, "issue"), gitlabUrl, token, "project"),
        "getIssueData")
getGitHubIssueData(call, token) ==
  Await(Send(Send(call, GitHubApi, token, "issue"), GitHubApi, token, "repo"),
        "getIssueData")

\* createGitLabTools: analyzeTool.handler
GitLab_analyzeTool(call, cx, a, b, comments) ==
  CASE call.pc = "idle" ->
         LET parsed == parseGitLabUrl(cx.gitlabUrl, call.args.url)
             cx2 == [cx EXCEPT !.gitlabUrl = parsed.gitlabUrl]
             token == TokenOr(call.args.accessToken, cx2.accessToken)
         IN IF ~parsed.ok
            THEN Step(Finish(call, Thrown(McpError(InvalidParams,
                        <<"URL de issue de GitLab invalido">>))), cx)
            ELSE Step(getIssueData([call EXCEPT !.token = token], cx2.gitlabUrl, token), cx2)
    [] call.pc = "getIssueData" ->
         IF PromiseAll(a, b)
         THEN Step(Await(Send(Ran(call, "IssueData"), cx.gitlabUrl, call.token, "notes"),
                         "comments"), cx)
         ELSE Step(Finish(call, Thrown(makeGitLabRequestError)), cx)
    [] OTHER ->
         IF a # "ok" THEN Step(Finish(call, Thrown(makeGitLabRequestError)), cx)
         ELSE LET formatting == Ran(Ran(call, "analyzeIssueForQA"), "formatQAAnalysis")
              IN IF formatQAAnalysisThrows(userComments(comments))
                 THEN Step(Finish(formatting, Thrown(RawError(<<"TypeError">>))), cx)
                 ELSE Step(Finish(formatting, Returned), cx)

\* createGitLabTools: summaryTool.handler
GitLab_summaryTool(call, cx, a, b) ==
  CASE call.pc = "idle" ->
         LET token == TokenOr(call.args.accessToken, cx.accessToken)
         IN Step(getIssueData([call EXCEPT !.token = token], cx.gitlabUrl, token), cx)
    [] OTHER ->
         IF PromiseAll(a, b)
         THEN Step(Finish(Ran(Ran(call, "IssueData"), "analyzeIssueForQA"), Returned), cx)
         ELSE Step(Finish(call, Thrown(makeGitLabRequestError)), cx)

\* createGitLabTools: getCommitByUrl.handler
GitLab_getCommitByUrlMutant(call, cx, a) ==
  CASE call.pc = "idle" ->
         LET parsed == parseGitLabCommitUrl(cx.gitlabUrl, call.args.url)
             cx2 == [cx EXCEPT !.gitlabUrl = parsed.gitlabUrl]
             token == TokenOr(call.args.accessToken, cx2.accessToken)
         IN IF ~parsed.ok
            THEN Step(Finish(call, Thrown(McpError(InvalidParams,
                        <<"URL de commit de GitLab invalido">>))), cx)
            ELSE Step(Await(Send([call EXCEPT !.token = token],
                                 cx2.gitlabUrl, token, "commit"), "request"), cx2)
    [] OTHER ->
         IF a = "ok" THEN Step(Finish(call, Returned), cx)
         ELSE Step(Finish(call, Thrown(makeGitLabRequestError)),
                   [cx EXCEPT !.gitlabUrl = DefaultGitLabUrl])

GitLab_getCommitByUrl(call, cx, a) ==
  CASE call.pc = "idle" ->
         LET parsed == parseGitLabCommitUrl(cx.gitlabUrl, call.args.url)
             cx2 == [cx EXCEPT !.gitlabUrl = parsed.gitlabUrl]
             token == TokenOr(call.args.accessToken, cx2.accessToken)
         IN IF ~parsed.ok
            THEN Step(Finish(call, Thrown(McpError(InvalidParams,
                        <<"URL de commit de GitLab invalido">>))), cx)
            ELSE Step(Await(Send([call EXCEPT !.token = token],
                                 cx2.gitlabUrl, token, "commit"), "request"), cx2)
    [] OTHER ->
         IF a = "ok" THEN Step(Finish(call, Returned), cx)
         ELSE Step(Finish(call, Thrown(makeGitLabRequestError)), cx)

\* createGitLabTools: getCommit.handler and apiGet.handler (one request each,
\* to ctx.gitlabUrl).
GitLab_get(call, cx, a, what) ==
  CASE call.pc = "idle" ->
         LET token == TokenOr(call.args.accessToken, cx.accessToken)
         IN Step(Await(Send([call EXCEPT !.token = token],
                            cx.gitlabUrl, token, what), "request"), cx)
    [] OTHER ->
         IF a = "ok" THEN Step(Finish(call, Returned), cx)
         ELSE Step(Finish(call, Thrown(makeGitLabRequestError)), cx)

GitHubTokenRequired ==
  McpError(InvalidParams, <<"Se requiere un token de acceso de GitHub">>)

\* createGitHubTools: analyzeTool.handler
GitHub_analyzeTool(call, dflt, a, b, comments) ==
  CASE call.pc = "idle" ->
         LET accessToken == TokenOr(call.args.accessToken, dflt)
             parsed == parseGitHubIssueUrl(call.args.url)
         IN IF TokenMissing(accessToken) THEN Finish(call, Thrown(GitHubTokenRequired))
            ELSE IF ~parsed.ok
            THEN Finish(call, Thrown(McpError(InvalidParams,
                                              <<"URL de issue de GitHub invalido">>)))
            ELSE getGitHubIssueData([call EXCEPT !.token = accessToken], accessToken)
    [] call.pc = "getIssueData" ->
         IF PromiseAll(a, b)
         THEN Await(Send(Ran(Ran(call, "IssueData"), "analyzeIssueForQA"),
                         GitHubApi, call.token, "comments"), "comments")
         ELSE Finish(call, Thrown(makeGitHubRequestError))
    [] OTHER ->
         IF a # "ok" THEN Finish(call, Thrown(makeGitHubRequestError))
         ELSE IF formatQAAnalysisThrows(comments)
         THEN Finish(Ran(call, "formatQAAnalysis"), Thrown(RawError(<<"TypeError">>)))
         ELSE Finish(Ran(call, "formatQAAnalysis"), Returned)

\* createGitHubTools: summaryTool.handler
GitHub_summaryTool(call, dflt, a, b) ==
  CASE call.pc = "idle" ->
         LET accessToken == TokenOr(call.args.accessToken, dflt)
         IN IF TokenMissing(accessToken) THEN Finish(call, Thrown(GitHubTokenRequired))
            ELSE getGitHubIssueData([call EXCEPT !.token = accessToken], accessToken)
    [] OTHER ->
         IF PromiseAll(a, b)
         THEN Finish(Ran(Ran(call, "IssueData"), "analyzeIssueForQA"), Returned)
         ELSE Finish(call, Thrown(makeGitHubRequestError))

\* createGitHubTools: getCommitByUrl.handler
GitHub_getCommitByUrl(call, dflt, a) ==
  CASE call.pc = "idle" ->
         LET accessToken == TokenOr(call.args.accessToken, dflt)
             parsed == parseGitHubCommitUrl(call.args.url)
         IN IF TokenMissing(accessToken) THEN Finish(call, Thrown(GitHubTokenRequired))
            ELSE IF ~parsed.ok
            THEN Finish(call, Thrown(McpError(InvalidParams,
                                              <<"URL de commit de GitHub invalido">>)))
            ELSE Await(Send([call EXCEPT !.token = accessToken],
                            GitHubApi, accessToken, "commit"), "request")
    [] OTHER ->
         IF a = "ok" THEN Finish(call, Returned)
         ELSE Finish(call, Thrown(makeGitHubRequestError))

\* createGitHubTools: getCommit.handler and apiGet.handler (one request each).
GitHub_get(call, dflt, a, what) ==
  CASE call.pc = "idle" ->
         LET accessToken == TokenOr(call.args.accessToken, dflt)
         IN IF TokenMissing(accessToken) THEN Finish(call, Thrown(GitHubTokenRequired))
            ELSE Await(Send([call EXCEPT !.token = accessToken],
                            GitHubApi, accessToken, what), "request")
    [] OTHER ->
         IF a = "ok" THEN Finish(call, Returned)
         ELSE Finish(call, Thrown(makeGitHubRequestError))

\* createHttpTools: httpRequest.handler; createWebTools: webSearch.handler.
\* One axios request inside try/catch.
httpRequestMutant(call, a, what) ==
  CASE call.pc = "idle" -> Await(Send(call, NoUrl, NoValue, what), "request")
    [] OTHER -> Finish(call, Returned)

httpRequest(call, a, what) ==
  CASE call.pc = "idle" -> Await(Send(call, NoUrl, NoValue, what), "request")
    [] OTHER ->
         IF a = "ok" THEN Finish(call, Returned)
         ELSE Finish(call, Thrown(WrapInternal(RawError(<<"Request failed">>))))

\* postgresHandler and mysqlHandler: connect, query, end, all inside one
\* try/catch; end() is called on the success path only.
postgresHandler(call, a) ==
  CASE call.pc = "idle" -> Await(Send(call, NoUrl, NoValue, "connect"), "connect")
    [] call.pc = "connect" ->
         IF a = "ok"
         THEN Await(Send([call EXCEPT !.conn = "open"], NoUrl, NoValue, "query"), "query")
         ELSE Finish(call, Thrown(WrapInternal(RawError(<<"connect failed">>))))
    [] call.pc = "query" ->
         IF a = "ok" THEN Await(Send(call, NoUrl, NoValue, "end"), "end")
         ELSE Finish(call, Thrown(WrapInternal(RawError(<<"query failed">>))))
    [] OTHER -> Finish([call EXCEPT !.conn = "closed"], Returned)

mysqlHandler(call, a) == postgresHandler(call, a)

\* mongoHandler: connect, the switch on the lower-cased operation, close, all
\* inside one try/catch; the default branch throws inside the try.
mongoHandler(call, a) ==
  CASE call.pc = "idle" -> Await(Send(call, NoUrl, NoValue, "connect"), "connect")
    [] call.pc = "connect" ->
         IF a # "ok" THEN Finish(call, Thrown(WrapInternal(RawError(<<"connect failed">>))))
         ELSE LET opened == [call EXCEPT !.conn = "open"]
                  operation == toLowerCase(call.args.operation)
              IN IF operation \in SupportedOperations
                 THEN Await(Send(opened, NoUrl, NoValue, operation), "query")
                 ELSE Finish(opened, Thrown(WrapInternal(
                        McpError(InvalidParams, <<"Operacion no soportada">>))))
    [] call.pc = "query" ->
         IF a = "ok" THEN Await(Send(call, NoUrl, NoValue, "close"), "end")
         ELSE Finish(call, Thrown(WrapInternal(RawError(<<"operation failed">>))))
    [] OTHER -> Finish([call EXCEPT !.conn = "closed"], Returned)

\* tool.handler(args) for the tool found: the handler that the name selects.
Handler(tool, call, cx, dflt, a, b, comments) ==
  CASE tool = "analyze_gitlab_issue_for_qa" -> GitLab_analyzeTool(call, cx, a, b, comments)
    [] tool = "get_gitlab_issue_qa_summary" -> GitLab_summaryTool(call, cx, a, b)
    [] tool = "gitlab_get_commit_by_url" -> GitLab_getCommitByUrl(call, cx, a)
    [] tool = "gitlab_get_commit" -> GitLab_get(call, cx, a, "commit")
    [] tool = "gitlab_api_get" -> GitLab_get(call, cx, a, "api")
    [] tool = "analyze_github_issue_for_qa" ->
         Step(GitHub_analyzeTool(call, dflt, a, b, comments), cx)
    [] tool = "get_github_issue_qa_summary" -> Step(GitHub_summaryTool(call, dflt, a, b), cx)
    [] tool = "github_get_commit_by_url" -> Step(GitHub_getCommitByUrl(call, dflt, a), cx)
    [] tool = "github_get_commit" -> Step(GitHub_get(call, dflt, a, "commit"), cx)
    [] tool = "github_api_get" -> Step(GitHub_get(call, dflt, a, "api"), cx)
    [] tool = "http_request" -> Step(httpRequest(call, a, "http"), cx)
    [] tool = "web_search" -> Step(httpRequest(call, a, "search"), cx)
    [] tool = "postgres_query" -> Step(postgresHandler(call, a), cx)
    [] tool = "mysql_query" -> Step(mysqlHandler(call, a), cx)
    [] OTHER -> Step(mongoHandler(call, a), cx)

\* The CallTool request handler around one run of the tool's handler: when the
\* handler has returned or thrown, the try/catch decides the response.
Dispatch(step) ==
  IF step.call.pc = "done"
  THEN [step EXCEPT !.call.response = Catch(step.call.name, step.call.outcome)]
  ELSE step

---------------------------------------------------------------------------
(* The state machine.                                                      *)

\* The server after `new GitLabQAMCPServer()` in one of the environments, with
\* room for n calls in flight.
Constructed(environments, n) ==
  /\ env \in environments
  /\ tools = ConstructorTools(env)
  /\ ctx = [gitlabUrl |-> ServerGitLabUrl(env), accessToken |-> ServerAccessToken(env)]
  /\ defaultAccessToken = ServerGitHubAccessToken(env)
  /\ calls = [c \in 1..n |-> IdleCall]
  /\ served = FALSE

Init == Constructed(Environments, MaxCalls) /\ qa = NoQA /\ link = NoParse /\ fetch = NoFetch /\ search = NoSearch

\* The environments in which the GitLab tools are registered.
GitLabEnvironments ==
  {e \in Environments : e.GITLAB_ACCESS_TOKEN # NoValue /\ e.GITHUB_ACCESS_TOKEN = NoValue}

InitGitLab == Constructed(GitLabEnvironments, MaxGitLabCalls) /\ qa = NoQA /\ link = NoParse /\ fetch = NoFetch /\ search = NoSearch

\* A tools/call request arrives: the CallTool request handler looks the tool up
\* and runs its handler to the first await (or to its end).
Call(c, names) ==
  /\ calls[c].pc = "idle"
  /\ \E name \in names : \E args \in ArgsFor(name) :
       LET call == [IdleCall EXCEPT !.name = name, !.args = args]
           i == Find(tools, name)
       IN IF i = 0
          THEN /\ calls' = [calls EXCEPT ![c] =
                    [call EXCEPT !.pc = "done",
                                 !.response = ErrorResponse(McpError(MethodNotFound,
                                                <<"Herramienta desconocida", name>>))]]
               /\ ctx' = ctx
          ELSE LET step == Dispatch(Handler(tools[i], [call EXCEPT !.handler = tools[i]],
                                            ctx, defaultAccessToken, "ok", "ok", <<>>))
               IN /\ calls' = [calls EXCEPT ![c] = step.call]
                  /\ ctx' = step.ctx
  /\ UNCHANGED <<env, tools, defaultAccessToken, served, qa, link, fetch, search>>

CallTool(c) == Call(c, RequestNames)

\* A tools/call request for one of the GitLab tools arrives.
CallGitLabTool(c) == Call(c, GitLabNames)

\* Promise.all of the issue request and the project/repo request settles.
PromiseAllSettles(c) ==
  /\ calls[c].pc = "getIssueData"
  /\ \E a \in Settlements, b \in Settlements :
       LET step == Dispatch(Handler(calls[c].handler, Settled(calls[c], <<a, b>>), ctx,
                                    defaultAccessToken, a, b, <<>>))
       IN /\ calls' = [calls EXCEPT ![c] = step.call]
          /\ ctx' = step.ctx
  /\ UNCHANGED <<env, tools, defaultAccessToken, served, qa, link, fetch, search>>

\* The notes/comments request of an analyze call settles.
CommentsSettle(c) ==
  /\ calls[c].pc = "comments"
  /\ \E a \in Settlements :
     \E comments \in (IF a # "ok" THEN {<<>>}
                      ELSE IF calls[c].handler \in GitLabNames THEN GitLabNotes
                      ELSE GitHubComments) :
       LET step == Dispatch(Handler(calls[c].handler, Settled(calls[c], <<a>>), ctx,
                                    defaultAccessToken, a, a, comments))
       IN /\ calls' = [calls EXCEPT ![c] = step.call]
          /\ ctx' = step.ctx
  /\ UNCHANGED <<env, tools, defaultAccessToken, served, qa, link, fetch, search>>

\* The single HTTP request of a call settles.
RequestSettles(c) ==
  /\ calls[c].pc = "request"
  /\ \E a \in Settlements :
       LET step == Dispatch(Handler(calls[c].handler, Settled(calls[c], <<a>>), ctx,
                                    defaultAccessToken, a, a, <<>>))
       IN /\ calls' = [calls EXCEPT ![c] = step.call]
          /\ ctx' = step.ctx
  /\ UNCHANGED <<env, tools, defaultAccessToken, served, qa, link, fetch, search>>

\* A database driver operation (connect, query/operation, end/close) settles.
\* end() and close() are taken to succeed.
DbSettles(c) ==
  /\ calls[c].pc \in {"connect", "query", "end"}
  /\ \E a \in (IF calls[c].pc = "end" THEN {"ok"} ELSE Settlements) :
       LET step == Dispatch(Handler(calls[c].handler, Settled(calls[c], <<a>>), ctx,
                                    defaultAccessToken, a, a, <<>>))
       IN /\ calls' = [calls EXCEPT ![c] = step.call]
          /\ ctx' = step.ctx
  /\ UNCHANGED <<env, tools, defaultAccessToken, served, qa, link, fetch, search>>

\* The response has been written to the transport: the call is over and
\* nothing of it remains in the server.
Respond(c) ==
  /\ calls[c].pc = "done"
  /\ calls' = [calls EXCEPT ![c] = IdleCall]
  /\ served' = (served \/ (calls[c].args.accessToken # NoValue /\ calls[c].reqs # <<>>))
  /\ UNCHANGED <<env, tools, ctx, defaultAccessToken, qa, link, fetch, search>>

Next ==
  \/ \E c \in Slots : CallTool(c)
  \/ \E c \in Slots : PromiseAllSettles(c)
  \/ \E c \in Slots : CommentsSettle(c)
  \/ \E c \in Slots : RequestSettles(c)
  \/ \E c \in Slots : DbSettles(c)
  \/ \E c \in Slots : Respond(c)

Spec == Init /\ [][Next]_vars

\* Concurrent calls of the GitLab tools alone.
NextGitLab ==
  \/ \E c \in Slots : CallGitLabTool(c)
  \/ \E c \in Slots : PromiseAllSettles(c)
  \/ \E c \in Slots : CommentsSettle(c)
  \/ \E c \in Slots : RequestSettles(c)
  \/ \E c \in Slots : Respond(c)

SpecGitLab == InitGitLab /\ [][NextGitLab]_vars

\* Concurrent calls of the GitLab tools that leave the token to the server,
\* on a server with a configured GITLAB_URL.
ConfiguredEnvironments == {e \in GitLabEnvironments : e.GITLAB_URL # NoUrl}

InitConfigured ==
  /\ Constructed(ConfiguredEnvironments, MaxGitLabCalls)
  /\ qa = NoQA /\ link = NoParse /\ fetch = NoFetch /\ search = NoSearch

\* A tools/call request for one of the GitLab tools, without accessToken,
\* arrives: all five tools are registered.
CallGitLabToolWithoutToken(c) ==
  /\ calls[c].pc = "idle"
  /\ \E name \in GitLabNames : \E args \in {a \in ArgsFor(name) : a.accessToken = NoValue} :
       LET call == [IdleCall EXCEPT !.name = name, !.args = args]
           i == Find(tools, name)
           step == Dispatch(Handler(tools[i], [call EXCEPT !.handler = tools[i]],
                                    ctx, defaultAccessToken, "ok", "ok", <<>>))
       IN /\ calls' = [calls EXCEPT ![c] = step.call]
          /\ ctx' = step.ctx
  /\ UNCHANGED <<env, tools, defaultAccessToken, served, qa, link, fetch, search>>

NextConfigured ==
  \/ \E c \in Slots : CallGitLabToolWithoutToken(c)
  \/ \E c \in Slots : PromiseAllSettles(c)
  \/ \E c \in Slots : CommentsSettle(c)
  \/ \E c \in Slots : RequestSettles(c)
  \/ \E c \in Slots : Respond(c)

SpecConfigured == InitConfigured /\ [][NextConfigured]_vars

---------------------------------------------------------------------------
(* The analyzer and the formatter applied to an issue: what the analyze    *)
(* handlers do between the fetch and the response, on its own.  The issue  *)
(* body is what GET /projects/:id/issues/:iid answers.                     *)

Titles == {"Implementar login con Google OAuth", "Actualizar README"}

\* The paragraphs descriptions are made of.
Paragraphs ==
  {"El sistema debe soportar OAuth2 para cuentas Google.\n",
   "- Usuario puede iniciar sesión con Google\n",
   "Requisitos: guardar los datos del formulario\n\n",
   "* Debe ser ok.\n",
   "Como QA quiero revisar la seguridad de la interfaz mobile para auditar pagos y rendimiento.\n"}

\* The descriptions of at most n paragraphs; the empty one is also the
\* description that is null or missing.
RECURSIVE Descriptions(_)
Descriptions(n) ==
  IF n = 0 THEN {NoValue}
  ELSE Descriptions(n - 1) \cup {d \o p : d \in Descriptions(n - 1), p \in Paragraphs}

\* The labels an issue may carry, and the label lists of at most n of them.
Labels == <<"security", "Bug", "docs">>
LabelLists(n) ==
  {l \in UNION {[1..k -> Range(Labels)] : k \in 0..Min(n, Len(Labels))} :
     \A i, j \in DOMAIN l :
       i < j => \E a, b \in DOMAIN Labels : a < b /\ Labels[a] = l[i] /\ Labels[b] = l[j]}

\* Issue bodies of the GitLab API.
Issues ==
  {[title |-> t, description |-> d, labels |-> l, assignees |-> <<[username |-> "ana"]>>,
    author |-> [username |-> "root"], state |-> "opened",
    created_at |-> "2024-03-01T12:00:00Z", updated_at |-> "2024-03-02T12:00:00Z",
    web_url |-> "https://gitlab.com/ns/proj/-/issues/42", iid |-> 42] :
     t \in Titles, d \in Descriptions(MaxParagraphs), l \in LabelLists(MaxLabels)}
Project == [name |-> "proj"]

\* The user notes of an issue, oldest first, and the lists handed to the
\* formatter: every run of consecutive notes that starts at the first note, and
\* the run from the second note to the last.
Notes ==
  [i \in 1..MaxComments |->
     [author |-> [name |-> "qa" \o ToString(i)], body |-> "Comentario " \o ToString(i),
      created_at |-> "2024-03-0" \o ToString(i) \o "T12:00:00Z", system |-> FALSE]]
CommentLists ==
  {SubSeq(Notes, 1, j) : j \in 0..MaxComments} \cup {SubSeq(Notes, 2, MaxComments)}

\* The notes GitLab writes itself, and the bodies of GET .../issues/:iid/notes:
\* the user notes alone, and the user notes with the system notes among them,
\* the i-th system note before the i-th user note.
SystemNotes ==
  [i \in 1..MaxSystemNotes |->
     [author |-> [name |-> "bot" \o ToString(i)], body |-> "added ~label " \o ToString(i),
      created_at |-> "2024-03-0" \o ToString(i) \o "T09:00:00Z", system |-> TRUE]]
RECURSIVE Interleaved(_, _)
Interleaved(first, second) ==
  IF first = <<>> THEN second
  ELSE IF second = <<>> THEN first
  ELSE <<Head(first), Head(second)>> \o Interleaved(Tail(first), Tail(second))
NoteLists == CommentLists \cup {Interleaved(SystemNotes, comments) : comments \in CommentLists}

\* The object getIssueData returns for an issue body and a project body.
IssueData(issue, project) ==
  [title |-> issue.title,
   description |-> IF issue.description # NoValue THEN issue.description ELSE "",
   labels |-> issue.labels,
   assignees |-> [i \in DOMAIN issue.assignees |-> issue.assignees[i].username],
   author |-> issue.author.username,
   state |-> issue.state,
   created_at |-> issue.created_at,
   updated_at |-> issue.updated_at,
   web_url |-> issue.web_url,
   project_name |-> project.name,
   iid |-> issue.iid]

InitQA ==
  /\ Constructed({e \in Environments : e.GITLAB_ACCESS_TOKEN = NoValue
                                       /\ e.GITHUB_ACCESS_TOKEN = NoValue
                                       /\ e.GITLAB_URL = NoUrl}, 0)
  /\ qa \in {[NoQA EXCEPT !.pc = "issue", !.issue = issue] : issue \in Issues}
  /\ link = NoParse /\ fetch = NoFetch /\ search = NoSearch

\* getIssueData builds the IssueData object.
Fetched ==
  /\ qa.pc = "issue"
  /\ qa' = [qa EXCEPT !.pc = "fetched", !.issueData = IssueData(qa.issue, Project)]
  /\ UNCHANGED <<server, link, fetch, search>>

\* const qaAnalysis = analyzeIssueForQA(issueData)
Analyze ==
  /\ qa.pc = "fetched"
  /\ qa' = [qa EXCEPT !.pc = "analyzed", !.qaAnalysis = analyzeIssueForQA(qa.issueData)]
  /\ UNCHANGED <<server, link, fetch, search>>

\* The notes are fetched and filtered, and the report is formatted:
\* formatQAAnalysis(issueData, qaAnalysis, userComments)
Format ==
  /\ qa.pc = "analyzed"
  /\ \E comments \in NoteLists :
       qa' = [qa EXCEPT !.pc = "formatted", !.notes = comments,
                        !.comments = userComments(comments),
                        !.formatted = formatQAAnalysis(qa.issueData, qa.qaAnalysis,
                                                       userComments(comments))]
  /\ UNCHANGED <<server, link, fetch, search>>

NextQA ==
  \/ Fetched
  \/ Analyze
  \/ Format

SpecQA == InitQA /\ [][NextQA]_vars

---------------------------------------------------------------------------
(* The by-URL analyze handlers from the text of the link to their first    *)
(* await: the link is parsed and, when it parses, the issue request and    *)
(* the project/repo request are sent.                                      *)

\* The configured base URLs (GITLAB_URL, or the default).
BaseUrls ==
  {"https://gitlab.com", "https://gitlab.example.org", "http://gitlab.example.org",
   "https://gitlab.example.org:8443"}

\* The links a client may send: SCHEME HOST /SEGMENT.. MARKER ID SUFFIX.
RECURSIVE PathsOf(_, _)
PathsOf(segments, n) ==
  IF n = 0 THEN {""}
  ELSE {p \o "/" \o s : p \in PathsOf(segments, n - 1), s \in segments}
Paths == UNION {PathsOf({"o", "r"}, n) : n \in 1..MaxSegments} \cup {"/ns/proj"}
LinkTexts ==
  {scheme \o host \o path \o marker \o id \o suffix :
     scheme \in {"https://", "http://", "ssh://"},
     host \in {"github.com", "gitlab.example.org", "gitlab.example.org:8443"},
     path \in Paths,
     marker \in {"/issues/", "/-/issues/", "/-/commit/"},
     id \in {"7", "42", "007", "x7"},
     suffix \in {"", "/edit"}}

InitUrl ==
  /\ Constructed({e \in Environments : e.GITLAB_ACCESS_TOKEN = NoValue
                                       /\ e.GITHUB_ACCESS_TOKEN = NoValue
                                       /\ e.GITLAB_URL = NoUrl}, 0)
  /\ qa = NoQA /\ fetch = NoFetch /\ search = NoSearch
  /\ link \in {[NoParse EXCEPT !.pc = "url", !.baseUrl = baseUrl, !.gitlabUrl = baseUrl,
                                !.issueUrl = url] :
                 baseUrl \in BaseUrls, url \in LinkTexts}

\* createGitLabTools: analyzeTool.handler up to the await in getIssueData.
ParseGitLabLink ==
  /\ link.pc = "url"
  /\ LET parsed == parseGitLabUrlText(link.gitlabUrl, link.issueUrl)
         gitlabUrl == parsed.value.gitlabUrl
         project == "/projects/" \o encodeURIComponent(parsed.value.projectId)
     IN link' = IF parsed.thrown
                THEN [link EXCEPT !.pc = "done", !.tool = "analyze_gitlab_issue_for_qa",
                                  !.parsed = parsed]
                ELSE [link EXCEPT !.pc = "getIssueData",
                                  !.tool = "analyze_gitlab_issue_for_qa",
                                  !.parsed = parsed, !.gitlabUrl = gitlabUrl,
                                  !.requests =
                                    <<gitlabUrl \o "/api/v4" \o project \o "/issues/"
                                        \o ToString(parsed.value.issueIid),
                                      gitlabUrl \o "/api/v4" \o project>>]
  /\ UNCHANGED <<server, qa, fetch, search>>

\* createGitHubTools: analyzeTool.handler up to the await in getGitHubIssueData.
ParseGitHubLink ==
  /\ link.pc = "url"
  /\ \E argToken \in ArgTokens :
       LET accessToken == TokenOr(argToken, defaultAccessToken)
           parsed == parseGitHubIssueUrlText(link.issueUrl)
           repo == "/repos/" \o parsed.value.owner \o "/" \o parsed.value.repo
       IN link' = IF TokenMissing(accessToken)
                  THEN [link EXCEPT !.pc = "done", !.tool = "analyze_github_issue_for_qa",
                                    !.parsed = Throws(GitHubTokenRequired)]
                  ELSE IF parsed.thrown
                  THEN [link EXCEPT !.pc = "done", !.tool = "analyze_github_issue_for_qa",
                                    !.parsed = parsed]
                  ELSE [link EXCEPT !.pc = "getIssueData",
                                    !.tool = "analyze_github_issue_for_qa",
                                    !.parsed = parsed,
                                    !.requests =
                                      <<"https://api.github.com" \o repo \o "/issues/"
                                          \o ToString(parsed.value.issueNumber),
                                        "https://api.github.com" \o repo>>]
  /\ UNCHANGED <<server, qa, fetch, search>>

NextUrl ==
  \/ ParseGitLabLink
  \/ ParseGitHubLink

SpecUrl == InitUrl /\ [][NextUrl]_vars

---------------------------------------------------------------------------
(* The two fetchers applied to the bodies of the issue response and of the *)
(* project/repo response.                                                  *)

\* The bodies: the members a provider may leave null or out take each of the
\* values listed, the others are always there.
GitLabIssues ==
  [title : {Absent, Some("Actualizar README")},
   description : {Absent, Some(""), Some("Debe ser ok.")},
   labels : {Absent, Some(<<>>), Some(<<"Bug">>)},
   assignees : {Absent, Some(<<>>), Some(<<[username |-> "ana"]>>)},
   author : {Absent, Some([username |-> "root"])},
   state : {Some("opened")}, created_at : {Some("2024-03-01T12:00:00Z")},
   updated_at : {Some("2024-03-02T12:00:00Z")},
   web_url : {Some("https://gitlab.com/ns/proj/-/issues/42")}, iid : {Some(42)}]
GitHubIssues ==
  [title : {Absent, Some("Actualizar README")},
   body : {Absent, Some(""), Some("Debe ser ok.")},
   labels : {Absent, Some(<<>>), Some(<<[name |-> "Bug"]>>)},
   assignees : {Absent, Some(<<>>), Some(<<[login |-> "ana"]>>)},
   user : {Absent, Some([login |-> "octocat"])},
   state : {Some("open")}, created_at : {Some("2024-03-01T12:00:00Z")},
   updated_at : {Some("2024-03-02T12:00:00Z")},
   html_url : {Some("https://github.com/o/r/issues/7")}, number : {Some(7)}]

InitFetch ==
  /\ Constructed({e \in Environments : e.GITLAB_ACCESS_TOKEN = NoValue
                                       /\ e.GITHUB_ACCESS_TOKEN = NoValue
                                       /\ e.GITLAB_URL = NoUrl}, 0)
  /\ qa = NoQA /\ link = NoParse /\ search = NoSearch
  /\ fetch \in {[NoFetch EXCEPT !.pc = "bodies", !.provider = "gitlab", !.issue = issue] :
                  issue \in GitLabIssues}
            \cup {[NoFetch EXCEPT !.pc = "bodies", !.provider = "github", !.issue = issue] :
                    issue \in GitHubIssues}

\* getIssueData after `await Promise.all`: the return statement.
GitLabIssueData ==
  /\ fetch.pc = "bodies" /\ fetch.provider = "gitlab"
  /\ fetch' = [fetch EXCEPT !.pc = "done",
                            !.issueData = getIssueDataReturn(fetch.issue, [name |-> Some("proj")])]
  /\ UNCHANGED <<server, qa, link, search>>

\* getGitHubIssueData after `await Promise.all`: the return statement.
GitHubIssueData ==
  /\ fetch.pc = "bodies" /\ fetch.provider = "github"
  /\ fetch' = [fetch EXCEPT !.pc = "done",
                            !.issueData = getGitHubIssueDataReturn(fetch.issue, [name |-> Some("r")])]
  /\ UNCHANGED <<server, qa, link, search>>

NextFetch ==
  \/ GitLabIssueData
  \/ GitHubIssueData

SpecFetch == InitFetch /\ [][NextFetch]_vars

---------------------------------------------------------------------------
(* web_search on the body of a response of the search provider.            *)

\* The i-th related topic of a body, of each kind: one with its own text and
\* link, a group of two subtopics, one without a link.
TopicKinds == {"topic", "group", "nolink"}
TopicOf(kind, i) ==
  LET n == ToString(i)
  IN CASE kind = "topic" -> RelatedTopic("t" \o n, "https://t.example/" \o n, <<>>)
       [] kind = "group" ->
            RelatedTopic("", "", <<RelatedTopic("g" \o n, "https://g.example/" \o n, <<>>),
                                   RelatedTopic("h" \o n, "https://h.example/" \o n, <<>>)>>)
       [] kind = "nolink" -> RelatedTopic("t" \o n, "", <<>>)

TopicLists ==
  UNION {{[i \in 1..n |-> TopicOf(kinds[i], i)] : kinds \in [1..n -> TopicKinds]} :
           n \in 0..MaxTopics}
  \cup {<<RelatedTopic("", "", <<>>), TopicOf("topic", 2)>>,
        <<RelatedTopic("", "", <<RelatedTopic("g1", "", <<>>)>>), TopicOf("topic", 2)>>}

\* The bodies: none, or one with or without an abstract and its link, and
\* with or without a list of related topics.
SearchBodies ==
  {Absent}
  \cup {Some([Heading |-> abstract[1], Abstract |-> abstract[2], AbstractURL |-> abstract[3],
              RelatedTopics |-> topics]) :
          abstract \in {<<"", "", "">>, <<"TLA+", "A language.", "https://a.example/tla">>,
                        <<"TLA+", "A language.", "">>},
          topics \in {Absent} \cup {Some(list) : list \in TopicLists}}

\* maxResults: left out, or a number.
MaxResultsArgs == {Absent} \cup {Some(n) : n \in (0 - 1)..MaxResults}

InitWeb ==
  /\ Constructed({e \in Environments : e.GITLAB_ACCESS_TOKEN = NoValue
                                       /\ e.GITHUB_ACCESS_TOKEN = NoValue
                                       /\ e.GITLAB_URL = NoUrl}, 0)
  /\ qa = NoQA /\ link = NoParse /\ fetch = NoFetch
  /\ search \in {[NoSearch EXCEPT !.pc = "response", !.maxResults = maxResults, !.data = data] :
                   maxResults \in MaxResultsArgs, data \in SearchBodies}

\* web_search.handler after the request has succeeded.
WebSearch ==
  /\ search.pc = "response"
  /\ LET items == collectItems(search.data)
     IN search' = [search EXCEPT !.pc = "done", !.items = items,
                                 !.returned = slice(items, 0, maxOf(search.maxResults))]
  /\ UNCHANGED <<server, qa, link, fetch>>

NextWeb == WebSearch

SpecWeb == InitWeb /\ [][NextWeb]_vars

---------------------------------------------------------------------------
(* Properties.                                                             *)

Requests(call) == {call.reqs[i] : i \in DOMAIN call.reqs}
HandlerRan(call) == call.handler # NoValue

\* The tool catalog of the specification (section 6).
CatalogGitLab ==
  {"analyze_gitlab_issue_for_qa", "get_gitlab_issue_qa_summary", "gitlab_get_commit_by_url",
   "gitlab_get_commit", "gitlab_api_get"}
CatalogGitHub ==
  {"analyze_github_issue_for_qa", "get_github_issue_qa_summary", "github_get_commit_by_url",
   "github_get_commit", "github_api_get"}
CatalogOther ==
  CatalogGitHub \cup {"http_request", "postgres_query", "mysql_query", "mongo_query",
                      "web_search"}

\* C1: when a handler throws, the caller receives an error response: the thrown
\* error itself, code and message unchanged, if it is an McpError, and otherwise
\* an InternalError whose message wraps the thrown error's message.  A thrown
\* error never becomes a result response.
C1_HandlerErrorsReachCaller ==
  \A c \in Slots :
    LET k == calls[c] IN
    (k.pc = "done" /\ k.outcome.kind = "throw") =>
      /\ k.response.kind = "error"
      /\ k.outcome.error.mcp => k.response.error = k.outcome.error
      /\ ~k.outcome.error.mcp =>
           k.response.error = McpError(InternalError,
                                <<"Error ejecutando", k.name>> \o k.outcome.error.message)

\* C1 witness: a handler threw an error that is not an McpError and the caller
\* got the InternalError that wraps it.
C1_Witness ==
  \E c \in Slots :
    /\ calls[c].pc = "done" /\ calls[c].outcome.kind = "throw"
    /\ ~calls[c].outcome.error.mcp
    /\ calls[c].response.error.code = InternalError

\* C2: a call runs a handler exactly when its name is one of the names the
\* list-tools request returns, and then the handler of that very name; a call of
\* any other name ends with MethodNotFound, no handler run and nothing sent.
\* The registry is the one built by the constructor and its names are pairwise
\* distinct.
C2_DispatchByExactName ==
  /\ tools = ConstructorTools(env)
  /\ Cardinality(Range(ListTools(tools))) = Len(tools)
  /\ \A c \in Slots :
       LET k == calls[c] IN
       k.pc # "idle" =>
         /\ HandlerRan(k) <=> k.name \in Range(ListTools(tools))
         /\ HandlerRan(k) => k.handler = k.name
         /\ ~HandlerRan(k) =>
              /\ k.pc = "done" /\ k.outcome = Pending /\ k.reqs = <<>>
              /\ k.response.kind = "error" /\ k.response.error.code = MethodNotFound

\* C2 witness: a call of a name that is not registered ended with MethodNotFound.
C2_Witness ==
  \E c \in Slots :
    /\ calls[c].pc = "done" /\ calls[c].name \notin Range(ListTools(tools))
    /\ calls[c].response.error.code = MethodNotFound

\* C3 (as claimed): a mongo_query call that reached the switch with an operation
\* outside the five supported ones ends with an InvalidParams error.
C3_UnsupportedOperationIsInvalidParams ==
  \A c \in Slots :
    LET k == calls[c] IN
    (k.name = "mongo_query" /\ k.pc = "done" /\ k.conn # "none"
       /\ toLowerCase(k.args.operation) \notin SupportedOperations) =>
      (k.response.kind = "error" /\ k.response.error.code = InvalidParams)

\* C4 (as claimed): when a database call has ended, the connection it opened is
\* closed.
C4_ConnectionClosedWhenCallEnds ==
  \A c \in Slots : calls[c].pc = "done" => calls[c].conn # "open"

\* C5 (as claimed): every request of an analyze_gitlab_issue_for_qa call whose
\* link is on a host other than the configured base host goes to the link's host.
C5_AnalyzeRequestsGoToLinkedHost ==
  \A c \in Slots :
    LET k == calls[c] IN
    (k.handler = "analyze_gitlab_issue_for_qa"
       /\ k.args.url.hostname # ServerGitLabUrl(env).hostname) =>
      \A r \in Requests(k) : r.to.hostname = k.args.url.hostname /\ r.to.port = k.args.url.port

\* C6 (as claimed): ctx.gitlabUrl changes only in the step in which a by-URL
\* GitLab call parses, successfully, a link whose host is not the host currently
\* configured; the default tokens never change.
C6_BaseUrlChangedOnlyByCrossHostParse ==
  [][/\ ctx'.accessToken = ctx.accessToken
     /\ defaultAccessToken' = defaultAccessToken
     /\ ctx'.gitlabUrl # ctx.gitlabUrl =>
          \E c \in Slots :
            /\ calls[c].pc = "idle" /\ calls'[c].handler \in ByUrlNames
            /\ calls'[c].reqs # <<>>
            /\ \/ calls'[c].args.url.hostname # ctx.gitlabUrl.hostname
               \/ calls'[c].args.url.port # ctx.gitlabUrl.port]_vars

C8_GitLabTokenInPromptIsServed ==
  \A c \in Slots :
    LET k == calls[c] IN
    (env.GITLAB_ACCESS_TOKEN = NoValue /\ k.pc # "idle" /\ k.name \in CatalogGitLab
       /\ k.args.accessToken # NoValue) =>
      (HandlerRan(k) /\ k.response.error.code # MethodNotFound)

\* C9: a GitHub tool call without accessToken, when no GITHUB_ACCESS_TOKEN is
\* configured, has ended with an InvalidParams error and has sent no request.
C9_GitHubCallWithoutTokenFails ==
  \A c \in Slots :
    LET k == calls[c] IN
    (k.pc # "idle" /\ k.name \in CatalogGitHub /\ k.args.accessToken = NoValue
       /\ env.GITHUB_ACCESS_TOKEN = NoValue) =>
      /\ k.pc = "done" /\ k.reqs = <<>>
      /\ k.response.kind = "error" /\ k.response.error.code = InvalidParams

\* C9 witness: such a call has happened.
C9_Witness ==
  \E c \in Slots :
    /\ calls[c].pc = "done" /\ calls[c].name \in CatalogGitHub
    /\ calls[c].args.accessToken = NoValue /\ env.GITHUB_ACCESS_TOKEN = NoValue
    /\ calls[c].response.error.code = InvalidParams

\* The token configured for the provider of a tool.
ConfiguredToken(name) ==
  IF name \in CatalogGitLab THEN env.GITLAB_ACCESS_TOKEN ELSE env.GITHUB_ACCESS_TOKEN

\* C10: every request of a GitLab or GitHub call that supplies accessToken
\* carries that token; every request of a call that supplies none carries the
\* configured default; the defaults held by the server stay the configured ones.
C10_PerCallTokenOverrides ==
  /\ ctx.accessToken = env.GITLAB_ACCESS_TOKEN
  /\ defaultAccessToken = env.GITHUB_ACCESS_TOKEN
  /\ \A c \in Slots :
       LET k == calls[c] IN
       k.name \in CatalogGitLab \cup CatalogGitHub =>
         \A r \in Requests(k) :
           r.token = IF k.args.accessToken # NoValue THEN k.args.accessToken
                     ELSE ConfiguredToken(k.name)

\* C10 witness: after a call that used its own accessToken has ended, a call
\* without accessToken has sent a request with the configured default.
C10_Witness ==
  /\ served
  /\ \E c \in Slots :
       /\ calls[c].name \in CatalogGitLab \cup CatalogGitHub
       /\ calls[c].args.accessToken = NoValue
       /\ \E r \in Requests(calls[c]) : r.token = ConfiguredToken(calls[c].name)

\* The four tools that fetch an issue, and the failure of an awaited operation.
IssueTools ==
  {"analyze_gitlab_issue_for_qa", "get_gitlab_issue_qa_summary",
   "analyze_github_issue_for_qa", "get_github_issue_qa_summary"}
Failed(call) == \E i \in DOMAIN call.settled : call.settled[i] = "fail"

\* C11: the issue request and the project/repo request of an issue fetch are
\* issued together, before either is awaited, and joined: the IssueData object
\* is produced exactly when both succeeded.  When either failed the call has
\* ended with an error, the analyzer and the formatter were not run, no
\* notes/comments request was sent and no result is returned.
C11_IssueFetchJoinsBothRequests ==
  \A c \in Slots :
    LET k == calls[c]
        joined == Len(k.settled) >= 2 /\ k.settled[1] = "ok" /\ k.settled[2] = "ok"
    IN k.handler \in IssueTools =>
         /\ k.pc = "getIssueData" =>
              (k.settled = <<>> /\ Len(k.reqs) = 2 /\ k.reqs[1].what = "issue"
                 /\ k.reqs[2].what \in {"project", "repo"} /\ k.ran = <<>>)
         /\ (\E i \in DOMAIN k.ran : k.ran[i] = "IssueData") <=> joined
         /\ (Len(k.settled) >= 2 /\ ~joined) =>
              /\ k.pc = "done" /\ k.response.kind = "error"
              /\ k.ran = <<>> /\ Len(k.reqs) = 2

\* C11 witness: an analyze call whose issue request succeeded and whose
\* project/repo request failed has ended with an error.
C11_Witness ==
  \E c \in Slots :
    /\ calls[c].handler \in {"analyze_gitlab_issue_for_qa", "analyze_github_issue_for_qa"}
    /\ calls[c].settled = <<"ok", "fail">>
    /\ calls[c].pc = "done" /\ calls[c].response.kind = "error"

\* C12: within a call no upstream operation is attempted twice, and a call one
\* of whose operations failed has ended with an error response, started no
\* further operation after the failure and never returns a result.
C12_NoRetryNoSwallow ==
  \A c \in Slots :
    LET k == calls[c] IN
    /\ \A i, j \in DOMAIN k.reqs : k.reqs[i].what = k.reqs[j].what => i = j
    /\ Len(k.settled) <= Len(k.reqs)
    /\ Failed(k) =>
         /\ k.pc = "done" /\ k.outcome.kind = "throw" /\ k.response.kind = "error"
         /\ Len(k.reqs) <= Len(k.settled) + 1

\* C12 witness: the query of a database call failed after its connect succeeded,
\* and the call ended with an error.
C12_Witness ==
  \E c \in Slots :
    /\ calls[c].handler \in {"postgres_query", "mysql_query", "mongo_query"}
    /\ calls[c].settled = <<"ok", "fail">>
    /\ calls[c].response.kind = "error"

\* C13 (as claimed): the formatter has no failure mode: an analyze call that
\* reached formatQAAnalysis returns the report.
C13_FormatterNeverFails ==
  \A c \in Slots :
    LET k == calls[c] IN
    (k.handler \in {"analyze_gitlab_issue_for_qa", "analyze_github_issue_for_qa"}
       /\ \E i \in DOMAIN k.ran : k.ran[i] = "formatQAAnalysis") =>
      (k.outcome = Returned /\ k.response.kind = "result")

\* The run of the analyzer has produced its QAAnalysis in this step, or the
\* formatter its report.
Analyzed == qa.pc = "analyzed"
Formatted == qa.pc = "formatted"
NoDuplicates(list) == \A i, j \in DOMAIN list : list[i] = list[j] => i = j
SyntheticRequirement == "Implementar: " \o qa.issueData.title
TheFallbacks ==
  [requirements |-> <<SyntheticRequirement>>,
   acceptanceCriteria |-> <<>>,
   testingSuggestions |-> universalSuggestions,
   riskAreas |-> <<>>,
   testTypes |-> <<"Testing Funcional", "Testing de Regresión">>]

\* The substrings the suggestion groups, the risk rules and the test-type rules
\* look for in the lower-cased title and description.
AnalyzerKeywords ==
  {"login", "auth", "password", "usuario", "form", "formulario", "input", "campo",
   "api", "endpoint", "service", "ui", "interfaz", "button", "botón",
   "database", "datos", "guardar", "save",
   "security", "seguridad", "payment", "pago", "billing", "facturación", "data",
   "migration", "migración", "integration", "integración", "third", "performance",
   "rendimiento", "unit", "unitario", "frontend", "backend", "mobile", "móvil",
   "accessibility", "accesibilidad"}
CriticalLabel(label) ==
  toLowerCase(label) \in {"critical", "crítico", "high-priority", "security", "bug"}

C16_UniversalSuggestionsOnce ==
  Analyzed =>
    /\ {"Verificar que el cambio no rompe funcionalidad existente",
        "Probar en diferentes navegadores/dispositivos",
        "Validar performance bajo carga normal",
        "Revisar logs de errores durante las pruebas"}
         \subseteq Range(qa.qaAnalysis.testingSuggestions)
    /\ NoDuplicates(qa.qaAnalysis.testingSuggestions)

\* C16 witness: an analysis whose text matched two keyword groups.
C16_Witness ==
  /\ Analyzed /\ Len(qa.qaAnalysis.testingSuggestions) >= 12
  /\ qa.qaAnalysis.testingSuggestions[1] = "Verificar login con credenciales válidas"

\* The types of the eight rules, in rule order.
RuleOrder ==
  <<"Testing Unitario", "Testing de Integración", "Testing de UI/UX", "Testing de API",
    "Testing de Performance", "Testing de Seguridad", "Testing Mobile",
    "Testing de Accesibilidad">>

EndToEndIssue ==
  /\ qa.issueData.title = "Implementar login con Google OAuth"
  /\ includes(qa.issueData.description, "debe soportar OAuth2")
  /\ includes(qa.issueData.description, "- Usuario puede iniciar sesión con Google")
  /\ "security" \in Range(qa.issueData.labels)

\* C19 (as claimed): the analysis of the end-to-end issue has the security
\* message in its risk areas and "Testing de Seguridad" in its test types.
C19_EndToEndSecurity ==
  (Analyzed /\ EndToEndIssue) =>
    /\ "Seguridad - requiere testing exhaustivo" \in Range(qa.qaAnalysis.riskAreas)
    /\ "Testing de Seguridad" \in Range(qa.qaAnalysis.testTypes)

\* C19 (amended): the analysis of the end-to-end issue has the security message
\* and, last, the high-priority message in its risk areas; "Testing de
\* Seguridad" is among its test types exactly when the title or the description
\* contains "security" or "seguridad": the label does not count.
C19_EndToEndSecurityFromText ==
  (Analyzed /\ EndToEndIssue) =>
    /\ "Seguridad - requiere testing exhaustivo" \in Range(qa.qaAnalysis.riskAreas)
    /\ qa.qaAnalysis.riskAreas[Len(qa.qaAnalysis.riskAreas)]
         = "Alta prioridad - requiere testing completo antes de release"
    /\ "Testing de Seguridad" \in Range(qa.qaAnalysis.testTypes)
         <=> test(fullTextOf(qa.issueData), {"security", "seguridad"})

\* C19 witness: the end-to-end issue whose description is the sentence and the
\* bullet has been analyzed, and "Testing de Seguridad" is not among its types.
C19_Witness ==
  /\ Analyzed /\ EndToEndIssue
  /\ qa.issueData.description =
       "El sistema debe soportar OAuth2 para cuentas Google.\n"
       \o "- Usuario puede iniciar sesión con Google\n"
  /\ "Testing de Seguridad" \notin Range(qa.qaAnalysis.testTypes)

\* The lines of the report that are the body, or the author line, of a note.
IsBody(line) == \E i \in DOMAIN Notes : Notes[i].body = line
AuthorTags == {"**" \o Notes[i].author.name \o "**" : i \in DOMAIN Notes}
IsAuthorLine(line) == StartsAt(line, 1, "**") /\ \E tag \in AuthorTags : StartsAt(line, 1, tag)

\* C20: for a comment list of length n the report has no comments section when
\* n = 0; otherwise one section whose header shows n and which holds exactly the
\* first min(n, 3) comments, in input order; the note that only 3 are shown is
\* present if and only if n > 3.
C20_CommentsSection ==
  Formatted =>
    LET n == Len(qa.comments)
        shown == Min(n, 3)
        headers == {i \in DOMAIN qa.formatted :
                      StartsAt(qa.formatted[i], 1, "## Comentarios Relevantes")}
        bodies == SelectSeq(qa.formatted, IsBody)
        authors == SelectSeq(qa.formatted, IsAuthorLine)
    IN /\ n = 0 => (headers = {} /\ bodies = <<>> /\ authors = <<>>)
       /\ n > 0 =>
            /\ Cardinality(headers) = 1
            /\ \A i \in headers :
                 qa.formatted[i] = "## Comentarios Relevantes (" \o ToString(n) \o ")"
            /\ bodies = [i \in 1..shown |-> qa.comments[i].body]
            /\ Len(authors) = shown
            /\ \A i \in 1..shown :
                 StartsAt(authors[i], 1, "**" \o qa.comments[i].author.name \o "**")
       /\ (\E i \in DOMAIN qa.formatted :
             qa.formatted[i] = "*(Mostrando solo los 3 comentarios más recientes)*")
            <=> n > 3

\* C20 witness: a report for the four comments that begin at the second note:
\* it shows the first three of them, and the note.
C20_Witness ==
  /\ Formatted /\ Len(qa.comments) = 4 /\ qa.comments[1].body = "Comentario 2"
  /\ SelectSeq(qa.formatted, IsBody) = <<"Comentario 2", "Comentario 3", "Comentario 4">>
  /\ \E i \in DOMAIN qa.formatted :
       qa.formatted[i] = "*(Mostrando solo los 3 comentarios más recientes)*"

\* The lines of the report that are the body of a fetched note.
IsNoteBody(line) == \E i \in DOMAIN qa.notes : qa.notes[i].body = line

\* C21: no note flagged as system-generated is rendered or counted in the
\* report of the analyze handler, and the report shows the first min(3, k) of
\* the k user notes, in fetched order, wherever the system notes stand.
C21_SystemNotesFiltered ==
  Formatted =>
    LET user == {i \in DOMAIN qa.notes : ~qa.notes[i].system}
        k == Cardinality(user)
        Shown(i) == Cardinality({j \in user : j < i}) < 3
        headers == {i \in DOMAIN qa.formatted :
                      StartsAt(qa.formatted[i], 1, "## Comentarios Relevantes")}
        bodies == SelectSeq(qa.formatted, IsNoteBody)
    IN /\ \A i \in DOMAIN qa.notes :
            qa.notes[i].system =>
              LET tag == "**" \o qa.notes[i].author.name \o "**"
              IN \A l \in DOMAIN qa.formatted :
                   /\ qa.formatted[l] # qa.notes[i].body
                   /\ StartsAt(qa.formatted[l], 1, "**") => ~StartsAt(qa.formatted[l], 1, tag)
       /\ \A l \in headers : qa.formatted[l] = commentsHeader(k)
       /\ (headers = {}) <=> (k = 0)
       /\ Len(bodies) = Min(3, k)
       /\ bodies = [n \in 1..Len(bodies) |->
                      qa.notes[CHOOSE i \in user : Cardinality({j \in user : j < i}) = n - 1].body]
       /\ \A i \in user : Shown(i) <=> qa.notes[i].body \in Range(bodies)

\* C21 witness: a system note came first in the fetched list, before five user
\* notes, and the report shows the first three user notes under a header that
\* counts five.
C21_Witness ==
  /\ Formatted /\ Len(qa.notes) = 6 /\ qa.notes[1].system
  /\ commentsHeader(5) \in Range(qa.formatted)
  /\ SelectSeq(qa.formatted, IsNoteBody) = <<"Comentario 1", "Comentario 2", "Comentario 3">>

\* The lines of the report between the header line `header` and the empty line
\* before the header line `next`.
Section(header, next) ==
  LET from == CHOOSE i \in DOMAIN qa.formatted : qa.formatted[i] = header
      to == CHOOSE i \in DOMAIN qa.formatted : qa.formatted[i] = next
  IN SubSeq(qa.formatted, from + 1, to - 2)

\* C22: the acceptance-criteria section of the report is the literal fallback
\* sentence when acceptanceCriteria is empty, and otherwise one entry per
\* criterion, the i-th entry being "i. " followed by the i-th criterion.
C22_AcceptanceCriteriaSection ==
  Formatted =>
    LET criteria == qa.qaAnalysis.acceptanceCriteria
        section == Section("## Criterios de Aceptación", "## Sugerencias de Testing")
    IN IF criteria = <<>>
       THEN section = <<"No se encontraron criterios de aceptación explícitos. "
                        \o "Revisar descripción del issue.">>
       ELSE /\ Len(section) = Len(criteria)
            /\ \A i \in DOMAIN criteria : section[i] = ToString(i) \o ". " \o criteria[i]

\* C22 witness: a report for two different criteria, in the order of the
\* description.
C22_Witness ==
  /\ Formatted
  /\ qa.qaAnalysis.acceptanceCriteria = <<"Debe ser ok.", "Usuario puede iniciar sesión con Google">>
  /\ Section("## Criterios de Aceptación", "## Sugerencias de Testing")
       = <<"1. Debe ser ok.", "2. Usuario puede iniciar sesión con Google">>

\* The by-URL call on the text of a link has run to its first await or to its
\* end.
ParsedBy(tool) == link.tool = tool /\ link.pc # "url"
\* The text is a decimal numeral of n: the digits of n after zeros.
NumeralOf(text, n) == \E zeros \in {"", "0", "00"} : text = zeros \o ToString(n)
\* The text from position i is a decimal numeral of n and then a character
\* that is not a digit, or the end.
NumeralAt(url, i, n) ==
  \E e \in i..Len(url) :
    /\ NumeralOf(SubSeq(url, i, e), n)
    /\ e = Len(url) \/ Char(url, e + 1) \notin Digits
\* A name between two slashes: not empty and without a slash.
IsName(text) == text # "" /\ ~includes(text, "/")

\* The text is exactly SCHEME github.com/owner/repo/issues/{n}.
GitHubShape(url, schemes) ==
  \E scheme \in schemes :
    LET o == Len(scheme) + 12
        r == NotSlash(url, o) + 1
        i == NotSlash(url, r)
    IN /\ StartsAt(url, 1, scheme \o "github.com/")
       /\ IsName(SubSeq(url, o, r - 2)) /\ IsName(SubSeq(url, r, i - 1))
       /\ StartsAt(url, i, "/issues/") /\ i + 8 <= Len(url)
       /\ \A j \in (i + 8)..Len(url) : Char(url, j) \in Digits

\* The GitHub parser returned the owner, the repo and the number that the link
\* begins with, and the handler sent the issue and the repo request for them.
GitHubParsedFromLink ==
  LET v == link.parsed.value
      head == "github.com/" \o v.owner \o "/" \o v.repo \o "/issues/"
  IN /\ ~link.parsed.thrown /\ IsName(v.owner) /\ IsName(v.repo)
     /\ \E scheme \in {"https://", "http://"} :
          /\ StartsAt(link.issueUrl, 1, scheme \o head)
          /\ NumeralAt(link.issueUrl, Len(scheme \o head) + 1, v.issueNumber)
     /\ link.requests =
          <<"https://api.github.com/repos/" \o v.owner \o "/" \o v.repo \o "/issues/"
              \o ToString(v.issueNumber),
            "https://api.github.com/repos/" \o v.owner \o "/" \o v.repo>>
GitHubParseRaised ==
  /\ link.parsed.thrown /\ link.parsed.error.mcp /\ link.parsed.error.code = InvalidParams
  /\ link.requests = <<>>
TokenGiven == link.parsed.error # GitHubTokenRequired

\* C23 (as claimed): parseGitHubIssueUrl returns the owner, repo and number of
\* the link for every text of the shape https://github.com/owner/repo/issues/{n}
\* and raises invalid-parameters for every other text, and then the call sends
\* no request.
C23_GitHubUrlShapeOrInvalidParams ==
  ParsedBy("analyze_github_issue_for_qa") =>
    IF GitHubShape(link.issueUrl, {"https://"})
    THEN TokenGiven => GitHubParsedFromLink
    ELSE GitHubParseRaised

\* C23 (amended): parseGitHubIssueUrl returns the owner, repo and number of the
\* link for every text that begins with http:// or https://, then
\* github.com/owner/repo/issues/{n}, whatever follows the digits, and raises
\* invalid-parameters for every other text, and then the call sends no request.
C23_GitHubUrlPrefixOrInvalidParams ==
  ParsedBy("analyze_github_issue_for_qa") =>
    IF \E n \in 1..Len(link.issueUrl) :
         GitHubShape(SubSeq(link.issueUrl, 1, n), {"https://", "http://"})
    THEN TokenGiven => GitHubParsedFromLink
    ELSE GitHubParseRaised

\* C23 witness: the link of the example has been parsed.
C23_Witness ==
  /\ ParsedBy("analyze_github_issue_for_qa")
  /\ link.issueUrl = "https://github.com/o/r/issues/7"
  /\ ~link.parsed.thrown
  /\ link.parsed.value = [owner |-> "o", repo |-> "r", issueNumber |-> 7]
  /\ link.requests # <<>>

\* The parts of a link https://HOST/NAMESPACE/PROJECT/-/issues/N, and whether
\* the text is such a link.
IssueLink(url) ==
  LET a == NotSlash(url, 9)
      b == NotSlash(url, a + 1)
      c == NotSlash(url, b + 1)
  IN [host |-> SubSeq(url, 9, a - 1), namespace |-> SubSeq(url, a + 1, b - 1),
      project |-> SubSeq(url, b + 1, c - 1), marker |-> c, n |-> SubSeq(url, c + 10, Len(url))]
IsIssueLink(url) ==
  /\ StartsAt(url, 1, "https://")
  /\ IsName(IssueLink(url).host) /\ IsName(IssueLink(url).namespace)
  /\ IsName(IssueLink(url).project)
  /\ StartsAt(url, IssueLink(url).marker, "/-/issues/")
  /\ IssueLink(url).n # ""
  /\ \A j \in (IssueLink(url).marker + 10)..Len(url) : Char(url, j) \in Digits

\* C24 (as claimed): for every configured base URL, parseGitLabUrl applied to
\* a link https://HOST/NAMESPACE/PROJECT/-/issues/N returns gitlabUrl
\* "https://HOST", projectId "NAMESPACE/PROJECT" and issueIid N.
C24_GitLabUrlParsesToHttpsHost ==
  (ParsedBy("analyze_gitlab_issue_for_qa") /\ IsIssueLink(link.issueUrl)) =>
    LET l == IssueLink(link.issueUrl)
    IN /\ ~link.parsed.thrown
       /\ link.parsed.value.gitlabUrl = "https://" \o l.host
       /\ link.parsed.value.projectId = l.namespace \o "/" \o l.project
       /\ NumeralOf(l.n, link.parsed.value.issueIid)

\* C24 (amended): parseGitLabUrl applied to such a link returns projectId
\* "NAMESPACE/PROJECT" and issueIid N; gitlabUrl is "https://HOST" when HOST,
\* with its port if it has one, differs from the host name of the configured
\* base URL, and is the configured base URL, as it is written, when it does not.
C24_GitLabUrlParsesToHostOrBase ==
  (ParsedBy("analyze_gitlab_issue_for_qa") /\ IsIssueLink(link.issueUrl)) =>
    LET l == IssueLink(link.issueUrl)
    IN /\ ~link.parsed.thrown
       /\ link.parsed.value.gitlabUrl =
            IF l.host # hostname(link.baseUrl) THEN "https://" \o l.host ELSE link.baseUrl
       /\ link.parsed.value.projectId = l.namespace \o "/" \o l.project
       /\ NumeralOf(l.n, link.parsed.value.issueIid)

\* C24 witness: the link of the example has been parsed under the default base
\* URL.
C24_Witness ==
  /\ ParsedBy("analyze_gitlab_issue_for_qa")
  /\ link.baseUrl = "https://gitlab.com"
  /\ link.issueUrl = "https://gitlab.example.org/ns/proj/-/issues/42"
  /\ link.parsed.value = [gitlabUrl |-> "https://gitlab.example.org",
                           projectId |-> "ns/proj", issueIid |-> 42]

\* The eleven fields of IssueData.
IssueDataFields ==
  {"title", "description", "labels", "assignees", "author", "state", "created_at",
   "updated_at", "web_url", "project_name", "iid"}

\* C25: every run of a fetcher's return statement gives an IssueData whose
\* eleven fields are all populated, whichever of the optional members of the
\* issue body (description/body, labels, assignees, author/user, title) are
\* null or missing; a string that is absent is "" and a list that is absent
\* is empty.
C25_AllFieldsPopulated ==
  fetch.pc = "done" =>
    LET optional == IF fetch.provider = "gitlab"
                    THEN [description |-> fetch.issue.description, author |-> fetch.issue.author]
                    ELSE [description |-> fetch.issue.body, author |-> fetch.issue.user]
        issueData == fetch.issueData.value
    IN /\ ~fetch.issueData.thrown
       /\ DOMAIN issueData = IssueDataFields
       /\ \A field \in IssueDataFields : issueData[field] # Absent
       /\ fetch.issue.title = Absent => issueData.title = Some("")
       /\ optional.description = Absent => issueData.description = Some("")
       /\ optional.author = Absent => issueData.author = Some("")
       /\ fetch.issue.labels = Absent => issueData.labels = Some(<<>>)
       /\ fetch.issue.assignees = Absent => issueData.assignees = Some(<<>>)

\* The related topics of a body that give an item, in the order of the
\* provider: those with a text and a link, and the first subtopic of a group
\* when it has a link.
RECURSIVE TopicsWithLink(_)
TopicsWithLink(topics) ==
  IF topics = <<>> THEN <<>>
  ELSE LET t == Head(topics)
           topic == IF t.Text # "" THEN <<t>>
                    ELSE IF t.Topics = <<>> THEN <<>> ELSE <<t.Topics[1]>>
       IN SelectSeq(topic, LAMBDA x : x.FirstURL # "") \o TopicsWithLink(Tail(topics))

\* C26: web_search returns at most maxResults items when maxResults is a
\* positive number and at most 5 when it is left out, zero or negative, and
\* the items returned are a prefix of the items collected: the abstract
\* first when the body has one, then the related topics in the order of
\* the provider; no item within the limit is left out.
C26_WebSearchReturnsPrefix ==
  search.pc = "done" =>
    LET positive == search.maxResults # Absent /\ search.maxResults[1] > 0
        data == search.data
        hasAbstract == data # Absent /\ data[1].Abstract # "" /\ data[1].AbstractURL # ""
        topics == IF data = Absent \/ data[1].RelatedTopics = Absent THEN <<>>
                  ELSE TopicsWithLink(data[1].RelatedTopics[1])
        first == IF hasAbstract THEN 1 ELSE 0
    IN /\ positive => Len(search.returned) <= search.maxResults[1]
       /\ ~positive => Len(search.returned) <= 5
       /\ Len(search.returned) = Min(IF positive THEN search.maxResults[1] ELSE 5,
                                     Len(search.items))
       /\ search.returned = SubSeq(search.items, 1, Len(search.returned))
       /\ Len(search.items) = first + Len(topics)
       /\ hasAbstract => search.items[1].url = data[1].AbstractURL
                          /\ search.items[1].snippet = data[1].Abstract
       /\ \A i \in 1..Len(topics) : search.items[first + i].url = topics[i].FirstURL
                                     /\ search.items[first + i].title = topics[i].Text

\* web_search has cut a list of an abstract and related topics, among them a
\* group, down to the default of 5, and another one down to maxResults.
C26_Witness ==
  /\ search.pc = "done"
  /\ search.maxResults \in {Absent, Some(0)}
  /\ Len(search.items) = 6 /\ Len(search.returned) = 5
  /\ search.items[1].url = "https://a.example/tla"
  /\ \E i \in 2..5 : search.returned[i].title = "g" \o ToString(i - 1)

\* The place of a suggestion in a list of suggestions, 0 when it is not there.
PlaceOf(suggestion, list) ==
  IF \E i \in DOMAIN list : list[i] = suggestion
  THEN CHOOSE i \in DOMAIN list : list[i] = suggestion
  ELSE 0

\* The groups of the table one of whose keywords the text contains.
GroupsIn(fullText) ==
  {g \in DOMAIN testingSuggestions : test(fullText, testingSuggestions[g].keywords)}

WithoutHighPriority(riskAreas) == SelectSeq(riskAreas, LAMBDA risk : risk # highPriority)

\* C28: the analysis does not depend on the labels but for one entry: an
\* issue with the same title and description and another list of labels
\* has the same testTypes, requirements, acceptanceCriteria and
\* testingSuggestions, and the same riskAreas once the high-priority entry
\* is taken out of both.  The issue is compared with the one that has no
\* labels: two issues that both agree with that one agree with each other.
C28_LabelsChangeOnlyHighPriority ==
  Analyzed =>
    LET other == analyzeIssueForQA([qa.issueData EXCEPT !.labels = <<>>])
    IN /\ other.testTypes = qa.qaAnalysis.testTypes
       /\ other.requirements = qa.qaAnalysis.requirements
       /\ other.acceptanceCriteria = qa.qaAnalysis.acceptanceCriteria
       /\ other.testingSuggestions = qa.qaAnalysis.testingSuggestions
       /\ WithoutHighPriority(other.riskAreas) = WithoutHighPriority(qa.qaAnalysis.riskAreas)

\* The analysis of an issue labelled security whose text names no security
\* topic: the high-priority entry is its one risk area, which the same issue
\* without labels does not have.
C28_Witness ==
  /\ Analyzed
  /\ qa.issueData.labels = <<"security">>
  /\ qa.qaAnalysis.riskAreas = <<highPriority>>
  /\ analyzeIssueForQA([qa.issueData EXCEPT !.labels = <<>>]).riskAreas = <<>>
  /\ \A i \in DOMAIN qa.qaAnalysis.testTypes :
       qa.qaAnalysis.testTypes[i] # "Testing de Seguridad"

\* The GitLab tools that take no link: they send their requests to the base
\* URL the server holds when they are called.
ByBaseUrlNames == GitLabNames \ ByUrlNames

\* In this step the call of slot c has begun and parsed its link.
ParsedLinkIn(c) ==
  calls[c].pc = "idle" /\ calls'[c].handler \in ByUrlNames /\ calls'[c].reqs # <<>>

\* C29: the base URL a by-URL GitLab call switches to outlives the call.  In
\* the step in which analyze_gitlab_issue_for_qa or gitlab_get_commit_by_url
\* parses a link, the shared base URL comes to be on the host of the link;
\* no other step changes it, be it the end of that call with a result or
\* with an error, so that it is the one of the parse executed last; and a
\* get_gitlab_issue_qa_summary, gitlab_get_commit or gitlab_api_get call
\* sends all its requests, when it is called, to the base URL held then.
C29_BaseUrlSwitchOutlivesCall ==
  [][/\ \A c \in Slots :
          ParsedLinkIn(c) =>
            /\ ctx'.gitlabUrl.hostname = calls'[c].args.url.hostname
            /\ ctx'.gitlabUrl # ctx.gitlabUrl =>
                 ctx'.gitlabUrl = Url("https", calls'[c].args.url.hostname,
                                      calls'[c].args.url.port)
     /\ ctx'.gitlabUrl # ctx.gitlabUrl => \E c \in Slots : ParsedLinkIn(c)
     /\ \A c \in Slots :
          calls'[c].handler \in ByBaseUrlNames =>
            IF calls[c].pc = "idle"
            THEN /\ calls'[c].reqs # <<>>
                 /\ \A i \in DOMAIN calls'[c].reqs : calls'[c].reqs[i].to = ctx.gitlabUrl
            ELSE calls'[c].reqs = calls[c].reqs]_vars

\* A gitlab_get_commit_by_url call on a link of another host than the
\* configured one has ended with an error of its fetch, and a summary call
\* has sent its two requests to the host of that link.
C29_Witness ==
  \E c, d \in Slots :
    /\ calls[c].handler = "gitlab_get_commit_by_url"
    /\ calls[c].pc = "done" /\ calls[c].outcome = Thrown(makeGitLabRequestError)
    /\ calls[c].args.url.hostname # ServerGitLabUrl(env).hostname
    /\ calls[d].handler = "get_gitlab_issue_qa_summary"
    /\ Len(calls[d].reqs) = 2
    /\ \A i \in DOMAIN calls[d].reqs :
         /\ calls[d].reqs[i].to.hostname = calls[c].args.url.hostname
         /\ calls[d].reqs[i].to.port = calls[c].args.url.port
    /\ ctx.gitlabUrl.hostname = calls[c].args.url.hostname

\* C30: the single-file server and helpers/qa.ts hold the same logic: for
\* every IssueData the analysis of GitLabQAMCPServer.analyzeIssueForQA is
\* that of analyzeIssueForQA, the five lists in the same order, and for
\* every analysis and list of comments the report of
\* GitLabQAMCPServer.formatQAAnalysis is that of formatQAAnalysis.
C30_LegacyAndHelpersAgree ==
  /\ Analyzed => GitLabQAMCPServer_analyzeIssueForQA(qa.issueData) = qa.qaAnalysis
  /\ qa.pc = "formatted" =>
       GitLabQAMCPServer_formatQAAnalysis(qa.issueData, qa.qaAnalysis, qa.comments)
         = qa.formatted

\* A report with requirements, criteria, a risk area and more than three
\* comments on which the two formatters agree.
C30_Witness ==
  /\ qa.pc = "formatted"
  /\ Len(qa.comments) > 3
  /\ Len(qa.qaAnalysis.acceptanceCriteria) > 0 /\ Len(qa.qaAnalysis.riskAreas) > 1
  /\ Len(qa.qaAnalysis.testingSuggestions) > 4
  /\ GitLabQAMCPServer_analyzeIssueForQA(qa.issueData) = qa.qaAnalysis
  /\ GitLabQAMCPServer_formatQAAnalysis(qa.issueData, qa.qaAnalysis, qa.comments)
       = qa.formatted

====
